---- MODULE Spec2Model ----
(***************************************************************************)
(* Model of the results text parsing engine of realtime_results_scraper:   *)
(* the token classifiers, the splits extractors and the individual and    *)
(* relay record parsers.                                                   *)
(*                                                                         *)
(* A Rust &str is modelled as a sequence of characters, a character as a   *)
(* one-element string.  LongS stands for U+017F (LATIN SMALL LETTER LONG   *)
(* S), a character of two UTF-8 bytes whose uppercase is "S": str::len()   *)
(* counts bytes, chars() counts characters.                                *)
(***************************************************************************)
EXTENDS Integers, Sequences, FiniteSets, TLC

VARIABLES
    input,      \* the argument handed to the function under analysis
    pc,         \* "start", or the name of the function that has returned
    result      \* the value that function returned

vars == <<input, pc, result>>

NoResult == [status |-> "NoResult"]

-----------------------------------------------------------------------------
(* Characters                                                              *)

LongS == "U+017F"

DigitSeq == <<"0", "1", "2", "3", "4", "5", "6", "7", "8", "9">>
UpperSeq == <<"A", "B", "C", "D", "E", "F", "G", "H", "I", "J", "K", "L", "M",
              "N", "O", "P", "Q", "R", "S", "T", "U", "V", "W", "X", "Y", "Z">>
LowerSeq == <<"a", "b", "c", "d", "e", "f", "g", "h", "i", "j", "k", "l", "m",
              "n", "o", "p", "q", "r", "s", "t", "u", "v", "w", "x", "y", "z">>

Range(s) == {s[i] : i \in DOMAIN s}

is_ascii_digit(c) == c \in Range(DigitSeq)

is_ascii_alphabetic(c) == c \in Range(UpperSeq) \cup Range(LowerSeq)

is_whitespace(c) == c \in {" ", "\t"}

\* char::to_uppercase on the characters of the model
char_to_uppercase(c) ==
    IF c \in Range(LowerSeq)
    THEN UpperSeq[CHOOSE i \in DOMAIN LowerSeq : LowerSeq[i] = c]
    ELSE IF c = LongS THEN "S" ELSE c

\* str::to_uppercase
to_uppercase(s) == [i \in DOMAIN s |-> char_to_uppercase(s[i])]

\* number of UTF-8 bytes of one character
len_utf8(c) == IF c = LongS THEN 2 ELSE 1

RECURSIVE len(_)
\* str::len(): the length in bytes
len(s) == IF s = <<>> THEN 0 ELSE len_utf8(Head(s)) + len(Tail(s))

\* s.chars().all(|c| c.is_ascii_digit())
all_ascii_digit(s) == \A i \in DOMAIN s : is_ascii_digit(s[i])

\* s.chars().any(|c| c.is_ascii_alphabetic())
any_ascii_alphabetic(s) == \E i \in DOMAIN s : is_ascii_alphabetic(s[i])

-----------------------------------------------------------------------------
(* String routines of the standard library, on character sequences         *)

DropFirst(s, n) == SubSeq(s, n + 1, Len(s))

starts_with(s, p) == Len(p) <= Len(s) /\ SubSeq(s, 1, Len(p)) = p

\* the 1-based positions at which pattern p occurs in s
Occurrences(s, p) == {i \in 1..(Len(s) - Len(p) + 1) : SubSeq(s, i, i + Len(p) - 1) = p}

contains(s, p) == Occurrences(s, p) # {}

\* str::find: the number of characters before the first occurrence, or -1
find(s, p) ==
    IF contains(s, p)
    THEN (CHOOSE i \in Occurrences(s, p) : \A j \in Occurrences(s, p) : i <= j) - 1
    ELSE -1

RECURSIVE trim_start(_)
trim_start(s) ==
    IF s # <<>> /\ is_whitespace(Head(s)) THEN trim_start(Tail(s)) ELSE s

RECURSIVE trim_end(_)
trim_end(s) ==
    IF s # <<>> /\ is_whitespace(s[Len(s)]) THEN trim_end(SubSeq(s, 1, Len(s) - 1)) ELSE s

trim(s) == trim_end(trim_start(s))

RECURSIVE trim_end_alphabetic(_)
\* s.trim_end_matches(|c: char| c.is_ascii_alphabetic())
trim_end_alphabetic(s) ==
    IF s # <<>> /\ is_ascii_alphabetic(s[Len(s)])
    THEN trim_end_alphabetic(SubSeq(s, 1, Len(s) - 1))
    ELSE s

RECURSIVE TakeToken(_)
\* the longest prefix of s without whitespace
TakeToken(s) ==
    IF s = <<>> \/ is_whitespace(Head(s)) THEN <<>> ELSE <<Head(s)>> \o TakeToken(Tail(s))

RECURSIVE split_whitespace(_)
\* s.split_whitespace().collect(): the maximal runs of non-whitespace, in order
split_whitespace(s) ==
    LET t == trim_start(s)
    IN  IF t = <<>> THEN <<>>
        ELSE <<TakeToken(t)>> \o split_whitespace(DropFirst(t, Len(TakeToken(t))))

RECURSIVE join(_, _)
\* parts.join(sep)
join(parts, sep) ==
    IF parts = <<>> THEN <<>>
    ELSE IF Len(parts) = 1 THEN parts[1]
    ELSE parts[1] \o sep \o join(Tail(parts), sep)

U8Max == 255

RECURSIVE DigitsValue(_)
\* the number a non-empty string of ASCII digits denotes
DigitsValue(s) ==
    IF s = <<>> THEN 0
    ELSE 10 * DigitsValue(SubSeq(s, 1, Len(s) - 1))
         + ((CHOOSE i \in DOMAIN DigitSeq : DigitSeq[i] = s[Len(s)]) - 1)

\* str::parse::<u8>(): Ok(n) is n, Err is -1.  An optional "+" sign, then one
\* or more ASCII digits, and the value must fit in 8 bits.
parse_u8(s) ==
    LET digits == IF Len(s) > 1 /\ s[1] = "+" THEN Tail(s) ELSE s
    IN  IF digits # <<>> /\ all_ascii_digit(digits) /\ DigitsValue(digits) <= U8Max
        THEN DigitsValue(digits)
        ELSE -1

-----------------------------------------------------------------------------
(* Token classifiers (utils.rs, event_handler.rs)                          *)

YearCodes == {<<"F", "R">>, <<"S", "O">>, <<"J", "R">>, <<"S", "R">>,
              <<"G", "R">>, <<"5", "Y">>, <<"R", "S">>, <<"F", "F">>}

DqStatuses == {<<"D", "Q">>, <<"D", "S", "Q">>, <<"D", "F", "S">>, <<"D", "N", "S">>}

\* utils::is_dq_status
is_dq_status(s) == s \in DqStatuses

\* a plausible slip: the length is counted in characters
is_year_pattern_chars(s) ==
    IF Len(s) # 2 THEN FALSE
    ELSE to_uppercase(s) \in YearCodes \/ all_ascii_digit(s)

\* utils::is_year_pattern
is_year_pattern(s) ==
    IF len(s) # 2 THEN FALSE
    ELSE to_uppercase(s) \in YearCodes \/ all_ascii_digit(s)

\* event_handler::is_year_pattern (the private copy of the individual parser)
event_is_year_pattern(s) ==
    IF len(s) # 2 THEN FALSE
    ELSE IF to_uppercase(s) \in YearCodes THEN TRUE
    ELSE all_ascii_digit(s)

\* a plausible slip: the rule of the dot branch applied after the LAST dot
is_valid_time_format_last_dot(s0) ==
    LET s == trim_end_alphabetic(s0)
    IN  IF ~contains(s, <<":">>) /\ ~contains(s, <<".">>) THEN FALSE
        ELSE IF contains(s, <<":">>)
        THEN LET colon_pos == find(s, <<":">>)
                 before == SubSeq(s, 1, colon_pos)
                 after == DropFirst(s, colon_pos + 1)
             IN  /\ before # <<>>
                 /\ all_ascii_digit(before)
                 /\ contains(after, <<".">>)
                 /\ len(after) >= 4
        ELSE LET dot_pos == (CHOOSE i \in Occurrences(s, <<".">>) :
                                \A j \in Occurrences(s, <<".">>) : j <= i) - 1
                 after == DropFirst(s, dot_pos + 1)
             IN  len(after) >= 2 /\ all_ascii_digit(after)

\* utils::is_valid_time_format
is_valid_time_format(s0) ==
    LET s == trim_end_alphabetic(s0)
    IN  IF ~contains(s, <<":">>) /\ ~contains(s, <<".">>) THEN FALSE
        ELSE IF find(s, <<":">>) # -1
        THEN LET colon_pos == find(s, <<":">>)
                 before == SubSeq(s, 1, colon_pos)
                 after == DropFirst(s, colon_pos + 1)
             IN  /\ before # <<>>
                 /\ all_ascii_digit(before)
                 /\ contains(after, <<".">>)
                 /\ len(after) >= 4
        ELSE IF find(s, <<".">>) # -1
        THEN LET dot_pos == find(s, <<".">>)
                 after == DropFirst(s, dot_pos + 1)
             IN  len(after) >= 2 /\ all_ascii_digit(after)
        ELSE FALSE

\* a plausible slip: one digit after the decimal point is enough
event_is_valid_time_format_one_digit(s0) ==
    LET s == trim_end_alphabetic(s0)
    IN  IF ~contains(s, <<":">>) /\ ~contains(s, <<".">>) THEN FALSE
        ELSE IF find(s, <<":">>) # -1
        THEN LET colon_pos == find(s, <<":">>)
                 before == SubSeq(s, 1, colon_pos)
                 after == DropFirst(s, colon_pos + 1)
             IN  /\ before # <<>>
                 /\ all_ascii_digit(before)
                 /\ contains(after, <<".">>)
                 /\ len(after) >= 4
        ELSE LET dot_pos == find(s, <<".">>)
                 after == DropFirst(s, dot_pos + 1)
             IN  len(after) >= 1 /\ all_ascii_digit(after)

\* event_handler::is_valid_time_format (the copy used by parse_splits)
event_is_valid_time_format(s0) ==
    LET s == trim_end_alphabetic(s0)
    IN  IF ~contains(s, <<":">>) /\ ~contains(s, <<".">>) THEN FALSE
        ELSE IF find(s, <<":">>) # -1
        THEN LET colon_pos == find(s, <<":">>)
                 before == SubSeq(s, 1, colon_pos)
                 after == DropFirst(s, colon_pos + 1)
             IN  /\ before # <<>>
                 /\ all_ascii_digit(before)
                 /\ contains(after, <<".">>)
                 /\ len(after) >= 4
        ELSE IF find(s, <<".">>) # -1
        THEN LET dot_pos == find(s, <<".">>)
                 after == DropFirst(s, dot_pos + 1)
             IN  len(after) >= 2 /\ all_ascii_digit(after)
        ELSE FALSE

-----------------------------------------------------------------------------
(* Splits extractors (event_handler::parse_splits,                         *)
(* relay_handler::parse_relay_splits)                                      *)

None == <<>>

Some(x) == <<x>>

U16Max == 65535

SplitDistance == 50

RECURSIVE FlattenRange(_, _, _)
\* f[lo] \o ... \o f[hi]: the items the nested loops visit, in visiting order
FlattenRange(f, lo, hi) ==
    IF lo > hi THEN <<>>
    ELSE IF lo = hi THEN f[lo]
    ELSE LET mid == (lo + hi) \div 2
         IN  FlattenRange(f, lo, mid) \o FlattenRange(f, mid + 1, hi)

Flatten(f) == FlattenRange(f, 1, Len(f))

\* `(splits.len() as u16 + 1) * 50` overflows 16 bits
distance_overflows(count) ==
    LET n == count % (U16Max + 1)
    IN  n + 1 > U16Max \/ (n + 1) * SplitDistance > U16Max

\* `(splits.len() as u16 + 1) * 50` in wrapping 16-bit arithmetic
u16_distance(count) ==
    ((((count % (U16Max + 1)) + 1) % (U16Max + 1)) * SplitDistance) % (U16Max + 1)

\* The vector the pushes build from the accepted time tokens.  A build with
\* overflow checks (the debug profile) panics at the first push whose distance
\* overflows; a build without them (the release profile) wraps.
push_splits(times, overflow_checks) ==
    IF overflow_checks /\ \E i \in DOMAIN times : distance_overflows(i - 1)
    THEN [panicked |-> TRUE, splits |-> <<>>]
    ELSE [panicked |-> FALSE,
          splits |-> [i \in DOMAIN times |->
                         [distance |-> u16_distance(i - 1), time |-> times[i]]]]

\* the parts of lines[1..] (the header line is skipped), in scan order
continuation_parts(lines) ==
    Flatten([i \in 1..(Len(lines) - 1) |-> split_whitespace(trim(lines[i + 1]))])

\* event_handler::parse_splits, the test `is_time`
event_is_time(part) ==
    /\ ~contains(part, <<"(">>)
    /\ part # <<>> /\ is_ascii_digit(part[1])
    /\ event_is_valid_time_format(part)

\* event_handler::parse_splits, the branch a part takes
event_part_kind(part) ==
    IF starts_with(part, <<"(">>) THEN "delta"
    ELSE IF starts_with(part, <<"r">>) THEN "reaction"
    ELSE IF event_is_time(part) THEN "time"
    ELSE "other"

\* event_handler::parse_splits: (reaction_time, splits)
parse_splits(lines, overflow_checks) ==
    LET parts == continuation_parts(lines)
        reactions == SelectSeq(parts, LAMBDA p : event_part_kind(p) = "reaction")
        times == SelectSeq(parts, LAMBDA p : event_part_kind(p) = "time")
        pushed == push_splits(times, overflow_checks)
    IN  [panicked |-> pushed.panicked,
         reaction_time |-> IF pushed.panicked \/ reactions = <<>> THEN None
                           ELSE Some(reactions[Len(reactions)]),
         splits |-> pushed.splits]

\* relay_handler: a line that starts with a leg marker
starts_with_leg_marker(line) ==
    \/ starts_with(line, <<"1", ")">>) \/ starts_with(line, <<"2", ")">>)
    \/ starts_with(line, <<"3", ")">>) \/ starts_with(line, <<"4", ")">>)

\* the parts of the lines parse_relay_splits scans (swimmer lines are skipped)
relay_split_parts(lines) ==
    Flatten([i \in 1..Len(lines) |->
                IF starts_with_leg_marker(trim(lines[i])) THEN <<>>
                ELSE split_whitespace(trim(lines[i]))])

\* relay_handler::parse_relay_splits, the test `is_time`
relay_is_time(part) ==
    /\ ~contains(part, <<"(">>)
    /\ part # <<>> /\ is_ascii_digit(part[1])
    /\ is_valid_time_format(part)

\* relay_handler::parse_relay_splits, the branch a part takes
relay_part_kind(part) ==
    IF starts_with(part, <<"(">>) THEN "delta"
    ELSE IF starts_with(part, <<"r">>) THEN "reaction"
    ELSE IF relay_is_time(part) THEN "time"
    ELSE "other"

\* relay_handler::parse_relay_splits: (first_reaction, splits)
parse_relay_splits(lines, overflow_checks) ==
    LET parts == relay_split_parts(lines)
        reactions == SelectSeq(parts, LAMBDA p : relay_part_kind(p) = "reaction")
        times == SelectSeq(parts, LAMBDA p : relay_part_kind(p) = "time")
        pushed == push_splits(times, overflow_checks)
    IN  [panicked |-> pushed.panicked,
         reaction_time |-> IF pushed.panicked \/ reactions = <<>> THEN None
                           ELSE Some(reactions[1]),
         splits |-> pushed.splits]

-----------------------------------------------------------------------------
(* Individual record parser (event_handler::parse_swimmer_section)         *)

ReturnsNone == [status |-> "None"]

Panics == [status |-> "Panic"]

\* the positions of the parts (1-based) the year scan `1..parts.len()-3` visits
year_scan_window(parts) == 2..(Len(parts) - 3)

\* a plausible slip: the scan keeps the LAST year token of the window
swimmer_year_idx_last(parts) ==
    LET hits == {i \in year_scan_window(parts) : event_is_year_pattern(parts[i])}
    IN  IF hits = {} THEN 0 ELSE CHOOSE i \in hits : \A j \in hits : j <= i

\* the first year token of the window (1-based), 0 when there is none
swimmer_year_idx(parts) ==
    LET hits == {i \in year_scan_window(parts) : event_is_year_pattern(parts[i])}
    IN  IF hits = {} THEN 0 ELSE CHOOSE i \in hits : \A j \in hits : i <= j

\* event_handler::parse_swimmer_section
parse_swimmer_section(lines, overflow_checks) ==
    LET main_line == trim(lines[1])
        parts == split_whitespace(main_line)
        n == Len(parts)
    IN  IF n < 6 THEN ReturnsNone
        ELSE IF parse_u8(parts[1]) = -1 THEN ReturnsNone
        ELSE IF parse_u8(parts[n]) = -1 THEN ReturnsNone
        ELSE IF swimmer_year_idx(parts) = 0 THEN ReturnsNone
        ELSE LET year_idx == swimmer_year_idx(parts)
                 scanned == parse_splits(lines, overflow_checks)
             IN  IF scanned.panicked THEN Panics
                 ELSE [status |-> "Some",
                       place |-> parse_u8(parts[1]),
                       name |-> join(SubSeq(parts, 2, year_idx - 1), <<" ">>),
                       year |-> parts[year_idx],
                       school |-> join(SubSeq(parts, year_idx + 1, n - 3), <<" ">>),
                       seed_time |-> Some(parts[n - 2]),
                       final_time |-> parts[n - 1],
                       reaction_time |-> scanned.reaction_time,
                       splits |-> scanned.splits]

-----------------------------------------------------------------------------
(* Relay record parser (relay_handler.rs)                                  *)

EmptySwimmer == [name |-> <<>>, year |-> <<>>, reaction_time |-> None]

\* relay_handler::parse_single_relay_swimmer; found = FALSE is None
parse_single_relay_swimmer(text, swimmer_num) ==
    LET parts == split_whitespace(text)
        has_reaction == /\ parts # <<>>
                        /\ swimmer_num > 1
                        /\ starts_with(parts[1], <<"r">>)
        start == IF has_reaction THEN 2 ELSE 1
        hits == {i \in start..Len(parts) : is_year_pattern(parts[i])}
        year_idx == IF hits = {} THEN 0 ELSE CHOOSE i \in hits : \A j \in hits : i <= j
    IN  IF parts = <<>> \/ start > Len(parts) THEN [found |-> FALSE, swimmer |-> EmptySwimmer]
        ELSE [found |-> TRUE,
              swimmer |->
                 [name |-> IF year_idx # 0
                           THEN join(SubSeq(parts, start, year_idx - 1), <<" ">>)
                           ELSE join(SubSeq(parts, start, Len(parts)), <<" ">>),
                  year |-> IF year_idx # 0 THEN parts[year_idx] ELSE <<>>,
                  reaction_time |-> IF has_reaction THEN Some(parts[1]) ELSE None]]

\* the search pattern "k) " of leg k
leg_search_pattern(k) == <<DigitSeq[k + 1], ")", " ">>

\* relay_handler::parse_relay_swimmers, the body of `for swimmer_num in 1..=4`
\* on one trimmed line: the swimmer leg k gets from it, if any
leg_on_line(line, k) ==
    LET pos == find(line, leg_search_pattern(k))
        after_marker == DropFirst(line, pos + 2)
        ends == {find(after_marker, leg_search_pattern(m)) : m \in (k + 1)..4} \ {-1}
        end_pos == IF ends = {} THEN Len(after_marker)
                   ELSE CHOOSE e \in ends : \A f \in ends : e <= f
    IN  IF pos = -1 THEN [found |-> FALSE, swimmer |-> EmptySwimmer]
        ELSE IF pos > 0 /\ ~is_whitespace(line[pos])
        THEN [found |-> FALSE, swimmer |-> EmptySwimmer]
        ELSE parse_single_relay_swimmer(trim(SubSeq(after_marker, 1, end_pos)), k)

\* a line the roster scan does not skip
is_roster_line(line) ==
    /\ \E i \in DOMAIN line : is_ascii_alphabetic(line[i]) /\ line[i] # "r"
    /\ starts_with_leg_marker(line)

\* a plausible slip: the swimmer found is pushed instead of stored in its slot
store_leg_push(swimmers, k, swimmer) == Append(swimmers, swimmer)

\* `swimmers[swimmer_num - 1] = swimmer`
store_leg(swimmers, k, swimmer) == [swimmers EXCEPT ![k] = swimmer]

\* one iteration of `for swimmer_num in 1..=4` on a roster line
scan_leg(swimmers, line, k) ==
    IF leg_on_line(line, k).found
    THEN store_leg(swimmers, k, leg_on_line(line, k).swimmer)
    ELSE swimmers

RECURSIVE scan_roster(_, _)
\* relay_handler::parse_relay_swimmers, the loop `for line in lines`
scan_roster(swimmers, lines) ==
    IF lines = <<>> THEN swimmers
    ELSE LET line == trim(Head(lines))
         IN  IF ~is_roster_line(line) THEN scan_roster(swimmers, Tail(lines))
             ELSE scan_roster(
                      scan_leg(scan_leg(scan_leg(scan_leg(swimmers, line, 1), line, 2),
                                        line, 3), line, 4),
                      Tail(lines))

\* relay_handler::parse_relay_swimmers
parse_relay_swimmers(lines) == scan_roster([k \in 1..4 |-> EmptySwimmer], lines)

\* relay_handler::parse_relay_team_section, (final_time, seed_time, team_end);
\* team_end is the number of parts before the first tail field
relay_tail_fields(parts) ==
    LET n == Len(parts)
        last == parts[n]
    IN  IF parse_u8(last) # -1
        THEN [final_time |-> parts[n - 1], seed_time |-> Some(parts[n - 2]), team_end |-> n - 3]
        ELSE IF is_dq_status(last)
        THEN [final_time |-> last,
              seed_time |-> IF n > 3 THEN Some(parts[n - 1]) ELSE None,
              team_end |-> n - 2]
        ELSE [final_time |-> last,
              seed_time |-> IF n > 2 THEN Some(parts[n - 1]) ELSE None,
              team_end |-> n - 2]

\* a plausible slip: the line after the header is captured for placed teams too
relay_dq_description_any_entry(lines, is_dq_entry) ==
    IF Len(lines) > 1
    THEN LET next_line == trim(lines[2])
         IN  IF /\ next_line # <<>>
                /\ ~starts_with(next_line, <<"1", ")">>)
                /\ ~starts_with(next_line, <<"r", ":">>)
                /\ ~starts_with(next_line, <<"r", "+">>)
                /\ any_ascii_alphabetic(next_line)
                /\ ~contains(next_line, <<")", " ">>)
             THEN Some(next_line)
             ELSE None
    ELSE None

\* relay_handler::parse_relay_team_section, dq_description
relay_dq_description(lines, is_dq_entry) ==
    IF is_dq_entry /\ Len(lines) > 1
    THEN LET next_line == trim(lines[2])
         IN  IF /\ next_line # <<>>
                /\ ~starts_with(next_line, <<"1", ")">>)
                /\ ~starts_with(next_line, <<"r", ":">>)
                /\ ~starts_with(next_line, <<"r", "+">>)
                /\ any_ascii_alphabetic(next_line)
                /\ ~contains(next_line, <<")", " ">>)
             THEN Some(next_line)
             ELSE None
    ELSE None

\* a plausible slip: the scans always start at the line after the header
swimmer_start_idx_always_one(dq_description) == 1

\* relay_handler::parse_relay_team_section, swimmer_start_idx
swimmer_start_idx(dq_description) == IF dq_description # None THEN 2 ELSE 1

\* relay_handler::parse_relay_team_section
parse_relay_team_section(lines, overflow_checks) ==
    LET main_line == trim(lines[1])
        parts == split_whitespace(main_line)
        n == Len(parts)
        is_dq_entry == parts[1] = <<"-", "-">>
    IN  IF n < 3 THEN ReturnsNone
        ELSE IF ~is_dq_entry /\ parse_u8(parts[1]) = -1 THEN ReturnsNone
        ELSE LET tail == relay_tail_fields(parts)
                 dq_description == relay_dq_description(lines, is_dq_entry)
                 rest == DropFirst(lines, swimmer_start_idx(dq_description))
                 swimmers == parse_relay_swimmers(rest)
                 scanned == parse_relay_splits(rest, overflow_checks)
             IN  \* parts[1..team_end] panics when team_end is 0
                 IF tail.team_end < 1 THEN Panics
                 ELSE IF scanned.panicked THEN Panics
                 ELSE [status |-> "Some",
                       place |-> IF is_dq_entry THEN None ELSE Some(parse_u8(parts[1])),
                       team_name |-> join(SubSeq(parts, 2, tail.team_end), <<" ">>),
                       seed_time |-> tail.seed_time,
                       final_time |-> tail.final_time,
                       dq_description |-> dq_description,
                       swimmers |-> IF swimmers = <<>> THEN swimmers
                                    ELSE [swimmers EXCEPT ![1].reaction_time =
                                                              scanned.reaction_time],
                       splits |-> scanned.splits]

-----------------------------------------------------------------------------
(* Specification of the token classifiers: a token is drawn, and each      *)
(* classifier is applied to it.                                            *)

MaxTokLen == 4

TokAlphabet == {"1", ".", ":", "R", "f", ")", LongS}

Strings(alphabet, n) == UNION {[1..k -> alphabet] : k \in 0..n}

\* the tokens named by the documentation of the classifiers, and a few more
SampleTokens ==
    { <<"1", ".">>, <<"2", ".">>, <<"1", "0", ".">>, <<"1", "0", ".", "5">>,
      <<"2", "1", ".", "0", "9">>, <<"4", "4", ".", "6", "2">>,
      <<"1", ":", "0", "8", ".", "6", "1">>,
      <<"4", ":", "0", "2", ".", "3", "1">>,
      <<"4", ":", "0", "2", ".", "3", "1", "N">>,
      <<"2", "3">>, <<"2", "4">>, <<"J", "R", "S">>, <<"5", "y">>, <<"s", "o">>,
      <<LongS, "o">>, <<"1", ".", "2", ".", "3", "4">> }
    \cup YearCodes \cup DqStatuses

Tokens == Strings(TokAlphabet, MaxTokLen) \cup SampleTokens

InitTokens ==
    /\ input \in Tokens
    /\ pc = "start"
    /\ result = NoResult

Apply(name, value) ==
    /\ pc = "start"
    /\ pc' = name
    /\ result' = value
    /\ UNCHANGED input

CallIsYearPattern == Apply("utils::is_year_pattern", is_year_pattern(input))

CallEventIsYearPattern == Apply("event_handler::is_year_pattern", event_is_year_pattern(input))

CallIsValidTimeFormat == Apply("utils::is_valid_time_format", is_valid_time_format(input))

CallEventIsValidTimeFormat ==
    Apply("event_handler::is_valid_time_format", event_is_valid_time_format(input))

NextTokens ==
    \/ CallIsYearPattern
    \/ CallEventIsYearPattern
    \/ CallIsValidTimeFormat
    \/ CallEventIsValidTimeFormat

SpecTokens == InitTokens /\ [][NextTokens]_vars

-----------------------------------------------------------------------------
(* Claims about the token classifiers                                      *)

YearCalls == {"utils::is_year_pattern", "event_handler::is_year_pattern"}

TimeCalls == {"utils::is_valid_time_format", "event_handler::is_valid_time_format"}

\* ASCII-only upper-casing, the reading of "case-insensitively" for the ASCII codes
AsciiUpper(c) ==
    IF c \in Range(LowerSeq)
    THEN UpperSeq[CHOOSE i \in DOMAIN LowerSeq : LowerSeq[i] = c]
    ELSE c

YearReference(tok) ==
    /\ Len(tok) = 2
    /\ \/ <<AsciiUpper(tok[1]), AsciiUpper(tok[2])>> \in YearCodes
       \/ is_ascii_digit(tok[1]) /\ is_ascii_digit(tok[2])

\* C8: both copies of is_year_pattern return true iff the token has exactly two
\* characters and either matches one of FR, SO, JR, SR, GR, 5Y, RS, FF
\* case-insensitively or consists of two ASCII digits; every token whose length
\* is not 2 is rejected.
C8_YearPatternRule ==
    pc \in YearCalls =>
        /\ result = YearReference(input)
        /\ (Len(input) # 2 => result = FALSE)

C8_Witness ==
    /\ pc = "utils::is_year_pattern"
    /\ input = <<"f", "R">>
    /\ result = TRUE

SetMin(S) == CHOOSE i \in S : \A j \in S : i <= j

SetMax(S) == CHOOSE i \in S : \A j \in S : j <= i

\* the token without its trailing ASCII letters
StripTrailingLetters(tok) ==
    LET k == CHOOSE k \in 0..Len(tok) :
                 /\ \A i \in (k + 1)..Len(tok) : is_ascii_alphabetic(tok[i])
                 /\ k = 0 \/ ~is_ascii_alphabetic(tok[k])
    IN  SubSeq(tok, 1, k)

\* The reference rule for time tokens.  lastDot selects the dot the second
\* branch looks behind: the last one, or the first one.  Lengths are str::len.
TimeReference(tok, lastDot) ==
    LET rest == StripTrailingLetters(tok)
        colons == {i \in DOMAIN rest : rest[i] = ":"}
        dots == {i \in DOMAIN rest : rest[i] = "."}
    IN  IF colons # {}
        THEN LET c == SetMin(colons)
             IN  /\ c > 1
                 /\ \A i \in 1..(c - 1) : is_ascii_digit(rest[i])
                 /\ \E d \in dots : d > c
                 /\ len(SubSeq(rest, c + 1, Len(rest))) >= 4
        ELSE IF dots # {}
        THEN LET d == IF lastDot THEN SetMax(dots) ELSE SetMin(dots)
             IN  /\ len(SubSeq(rest, d + 1, Len(rest))) >= 2
                 /\ \A i \in (d + 1)..Len(rest) : is_ascii_digit(rest[i])
        ELSE FALSE

\* C9 as stated: is_valid_time_format agrees with the rule that, without a
\* colon, looks at the part after the LAST dot.
C9_LastDotRule ==
    pc \in TimeCalls => result = TimeReference(input, TRUE)

\* C9 amended: is_valid_time_format agrees with the rule that, without a colon,
\* requires the part after the FIRST dot to have length at least 2 and to be
\* all digits (the colon branch as stated, at the first colon).
C9_FirstDotRule ==
    pc \in TimeCalls => result = TimeReference(input, FALSE)

C9_Witness ==
    /\ pc = "utils::is_valid_time_format"
    /\ input = <<"1", ".", "2", ".", "3", "4">>
    /\ result = FALSE

TimeRejectedAsStated == {<<"1", ".">>, <<"2", ".">>, <<"1", "0", ".">>}

TimeAcceptedAsStated ==
    { <<"1", "0", ".", "5">>, <<"2", "1", ".", "0", "9">>,
      <<"1", ":", "0", "8", ".", "6", "1">>, <<"4", ":", "0", "2", ".", "3", "1">>,
      <<"4", ":", "0", "2", ".", "3", "1", "N">> }

\* C10 as stated: `1.`, `2.` and `10.` are rejected and `10.5`, `21.09`,
\* `1:08.61`, `4:02.31` and `4:02.31N` are accepted.
C10_ExamplesAsStated ==
    pc \in TimeCalls =>
        /\ input \in TimeRejectedAsStated => result = FALSE
        /\ input \in TimeAcceptedAsStated => result = TRUE

\* C10 amended: `1.`, `2.`, `10.` and `10.5` are rejected (one digit after the
\* decimal point is not enough) and `21.09`, `1:08.61`, `4:02.31` and `4:02.31N`
\* are accepted.
C10_ExamplesAmended ==
    pc \in TimeCalls =>
        /\ input \in TimeRejectedAsStated \cup {<<"1", "0", ".", "5">>} => result = FALSE
        /\ input \in TimeAcceptedAsStated \ {<<"1", "0", ".", "5">>} => result = TRUE

C10_Witness ==
    /\ pc = "event_handler::is_valid_time_format"
    /\ input = <<"1", "0", ".", "5">>
    /\ result = FALSE

-----------------------------------------------------------------------------
(* Specification of the splits extractors: a record section is drawn (a    *)
(* header line and continuation lines made of the tokens the result sheets *)
(* print), and each extractor is applied to it.                            *)

MaxSplitToks == 4

LongRun == 1311

NL == <<"\n">>

TimeTok == <<"9", ".", "8", "7">>

SplitPool ==
    { TimeTok,
      <<"1", ":", "0", "2", ".", "3", "5">>,
      <<"(", "9", ".", "8", "7", ")">>,
      <<"(">>,
      <<")">>,
      <<"1", ":", "0", "2", ".", "3", "5", ")">>,
      <<"r", ":", "+", "0", ".", "6", "2">>,
      <<"1", ")">> }

RECURSIVE LinesOf(_)
\* the items between the line breaks
LinesOf(items) ==
    LET breaks == {i \in DOMAIN items : items[i] = NL}
    IN  IF breaks = {} THEN <<items>>
        ELSE LET k == CHOOSE i \in breaks : \A j \in breaks : i <= j
             IN  <<SubSeq(items, 1, k - 1)>> \o LinesOf(SubSeq(items, k + 1, Len(items)))

\* a printed line: indented, columns separated by two blanks
FormatLine(toks) == <<" ", " ">> \o join(toks, <<" ", " ">>)

FormatLines(items) ==
    IF items = <<>> THEN <<>>
    ELSE [i \in 1..Len(LinesOf(items)) |-> FormatLine(LinesOf(items)[i])]

SwimmerHeader ==
    <<"1", " ", "L", "e", "o", "n", " ", "J", "R", " ", "A", "S", "U", " ",
      "9", ".", "8", "7", " ", "9", ".", "8", "7", " ", "2", "0">>

\* In this specification `input` is a record section in compact form: the
\* block of continuation lines and the number of times the sheet repeats it.
SplitSection(compact) ==
    <<SwimmerHeader>> \o Flatten([c \in 1..compact.copies |-> compact.lines])

SplitSections ==
    {[lines |-> FormatLines(items), copies |-> 1] :
        items \in Strings(SplitPool \cup {NL}, MaxSplitToks)}
    \cup {[lines |-> <<FormatLine(<<TimeTok>>)>>, copies |-> LongRun]}

InitSplits ==
    /\ input \in SplitSections
    /\ pc = "start"
    /\ result = NoResult

CallParseSplits ==
    \E overflow_checks \in BOOLEAN :
        Apply("event_handler::parse_splits",
              parse_splits(SplitSection(input), overflow_checks))

CallParseRelaySplits ==
    \E overflow_checks \in BOOLEAN :
        Apply("relay_handler::parse_relay_splits",
              parse_relay_splits(Tail(SplitSection(input)), overflow_checks))

NextSplits ==
    \/ CallParseSplits
    \/ CallParseRelaySplits

SpecSplits == InitSplits /\ [][NextSplits]_vars

-----------------------------------------------------------------------------
(* Specification of the record parsers: a record section is drawn (header  *)
(* line and continuation lines), and each record parser is applied to it.  *)

MaxMid == 4

\* the tail fields of a header line: seed time, final time, points
TailFields == 3

MaxContLines == 3

DqMarker == <<"-", "-">>

PlacePool == {<<"7">>, DqMarker, <<"3", "0", "0">>}

MidPool == {<<"L", "e", "o">>, <<"J", "R">>}

TailPool == {TimeTok, <<"2", "0">>, <<"D", "Q">>}

\* the lines below a header, as lists of tokens
DescriptionLine == << <<"E", "a", "r", "l", "y">>, <<"s", "t", "a", "r", "t">> >>

DescriptionWithTime == << <<"D", "Q">>, TimeTok >>

Roster12 == << <<"1", ")">>, <<"B", "o">>, <<"S", "R">>,
               <<"2", ")">>, <<"r", ":", "-", "0", ".", "0", "1">>, <<"O", "t">>, <<"S", "O">> >>

Roster34 == << <<"3", ")">>, <<"r", ":", "0", ".", "0", "0">>, <<"Z", "u">>, <<"J", "R">>,
               <<"4", ")">>, <<"N", "e">> >>

SplitLine == << <<"r", ":", "+", "0", ".", "6", "2">>, TimeTok, <<"(", "9", ".", "8", "7", ")">> >>

DigitsLine == << TimeTok, <<"1", ":", "0", "2", ".", "3", "5">> >>

BlankLine == << >>

ContPool ==
    {DescriptionLine, DescriptionWithTime, Roster12, Roster34, SplitLine, DigitsLine, BlankLine}

\* the continuation lines of the sections whose header varies
HeaderContinuation == <<DescriptionLine, SplitLine>>

\* headers whose continuation lines are drawn from ContPool
ContHeaders ==
    { <<DqMarker, <<"L", "e", "o">>, TimeTok, <<"D", "Q">> >>,
      <<<<"7">>, <<"L", "e", "o">>, TimeTok, TimeTok, <<"2", "0">> >> }

FormatSection(header, cont) ==
    <<FormatLine(header)>> \o [i \in DOMAIN cont |-> FormatLine(cont[i])]

Sections ==
    {FormatSection(<<p>> \o m \o t, HeaderContinuation) :
        p \in PlacePool, m \in Strings(MidPool, MaxMid), t \in Strings(TailPool, TailFields)}
    \cup {FormatSection(h, c) : h \in ContHeaders, c \in Strings(ContPool, MaxContLines)}

Init ==
    /\ input \in Sections
    /\ pc = "start"
    /\ result = NoResult

CallParseSwimmerSection ==
    \E overflow_checks \in BOOLEAN :
        Apply("event_handler::parse_swimmer_section",
              parse_swimmer_section(input, overflow_checks))

CallParseRelayTeamSection ==
    \E overflow_checks \in BOOLEAN :
        Apply("relay_handler::parse_relay_team_section",
              parse_relay_team_section(input, overflow_checks))

Next ==
    \/ CallParseSwimmerSection
    \/ CallParseRelayTeamSection

Spec == Init /\ [][Next]_vars

-----------------------------------------------------------------------------
(* Claims about the record parsers                                         *)

SwimmerCall == "event_handler::parse_swimmer_section"

RelayCall == "relay_handler::parse_relay_team_section"

\* the whitespace-delimited tokens of the header line
HeaderParts == split_whitespace(input[1])

\* a string of ASCII digits that denotes a number in 0..255
NumericU8(tok) == tok # <<>> /\ all_ascii_digit(tok) /\ DigitsValue(tok) <= 255

\* parts is a well-formed header with the class-year token at position y:
\* place, name tokens (none a year token), year, school tokens, seed, final, points
WellFormedAt(parts, y) ==
    /\ y \in 3..(Len(parts) - 4)
    /\ NumericU8(parts[1])
    /\ \A i \in 2..(y - 1) : ~YearReference(parts[i])
    /\ YearReference(parts[y])
    /\ NumericU8(parts[Len(parts)])

\* C1: on a well-formed header line parse_swimmer_section returns a result with
\* the place number, the name tokens joined by single spaces, the class-year
\* token, the school tokens joined by single spaces, the seed token and the
\* final token.
C1_WellFormedHeader ==
    pc = SwimmerCall =>
        \A y \in DOMAIN HeaderParts :
            WellFormedAt(HeaderParts, y) =>
                LET n == Len(HeaderParts)
                IN  /\ result.status = "Some"
                    /\ result.place = DigitsValue(HeaderParts[1])
                    /\ result.name = join(SubSeq(HeaderParts, 2, y - 1), <<" ">>)
                    /\ result.year = HeaderParts[y]
                    /\ result.school = join(SubSeq(HeaderParts, y + 1, n - 3), <<" ">>)
                    /\ result.seed_time = Some(HeaderParts[n - 2])
                    /\ result.final_time = HeaderParts[n - 1]

C1_Witness ==
    /\ pc = SwimmerCall
    /\ result.status = "Some"
    /\ result.place = 7
    /\ result.name = <<"L", "e", "o", " ", "L", "e", "o">>
    /\ result.year = <<"J", "R">>
    /\ result.school = <<"J", "R">>
    /\ result.final_time = TimeTok

\* the text "k)" of leg marker k
LegMarker(k) == <<DigitSeq[k + 1], ")">>

\* C4: a team returned by the relay parser has exactly 4 legs, leg k holds what
\* marker k) introduced on some line, a leg whose marker is on no line keeps an
\* empty name and year, and the roster lines never decide whether the team is
\* returned.
C4_FourLegs ==
    pc = RelayCall =>
        /\ result.status = "Some" =>
              /\ Len(result.swimmers) = 4
              /\ \A k \in 1..4 :
                    \/ /\ result.swimmers[k].name = <<>>
                       /\ result.swimmers[k].year = <<>>
                    \/ \E l \in 2..Len(input) :
                          /\ contains(input[l], LegMarker(k))
                          /\ leg_on_line(trim(input[l]), k).found
                          /\ result.swimmers[k].name = leg_on_line(trim(input[l]), k).swimmer.name
                          /\ result.swimmers[k].year = leg_on_line(trim(input[l]), k).swimmer.year
        /\ parse_relay_team_section(<<input[1]>>, FALSE).status = "Some" =>
              result.status = "Some"

C4_Witness ==
    /\ pc = RelayCall
    /\ result.status = "Some"
    /\ Len(result.swimmers) = 4
    /\ result.swimmers[1].name = <<"B", "o">>
    /\ result.swimmers[2].name = <<"O", "t">>
    /\ result.swimmers[3] = EmptySwimmer
    /\ result.swimmers[4] = EmptySwimmer

\* C5: in a result of the individual parser the place is the parsed integer and
\* the header does not start with `--`; in a result of the relay parser the
\* place is absent exactly when the first header token is `--` and is the
\* parsed integer otherwise; a dq_description is present only on a result whose
\* place is absent.
C5_PlaceAndDisqualification ==
    /\ (pc = SwimmerCall /\ result.status = "Some") =>
          /\ HeaderParts[1] # DqMarker
          /\ parse_u8(HeaderParts[1]) # -1
          /\ result.place = parse_u8(HeaderParts[1])
    /\ (pc = RelayCall /\ result.status = "Some") =>
          /\ result.place = None <=> HeaderParts[1] = DqMarker
          /\ HeaderParts[1] # DqMarker =>
                /\ parse_u8(HeaderParts[1]) # -1
                /\ result.place = Some(parse_u8(HeaderParts[1]))
          /\ result.dq_description # None => result.place = None

C5_Witness ==
    /\ pc = RelayCall
    /\ result.status = "Some"
    /\ result.place = None
    /\ result.dq_description = Some(<<"E", "a", "r", "l", "y", " ", " ", "s", "t", "a", "r", "t">>)

\* the line looks like a leg marker or a reaction token
LooksLikeLegOrReaction(line) ==
    \/ starts_with(line, <<"1", ")">>)
    \/ starts_with(line, <<"r", ":">>)
    \/ starts_with(line, <<"r", "+">>)
    \/ contains(line, <<")", " ">>)

\* the line after the header is a disqualification description
DescriptionCaptured ==
    /\ Len(input) > 1
    /\ trim(input[2]) # <<>>
    /\ \E i \in DOMAIN input[2] : is_ascii_alphabetic(input[2][i])
    /\ ~LooksLikeLegOrReaction(trim(input[2]))

\* C6: under a header that starts with `--` the next line is captured, trimmed,
\* as dq_description iff it is non-empty, has an ASCII letter and does not look
\* like a leg marker or reaction token; when captured it contributes no leg
\* and no split, the scans start one line later.
C6_DqDescription ==
    (pc = RelayCall /\ result.status = "Some" /\ HeaderParts[1] = DqMarker) =>
        LET rest == IF DescriptionCaptured THEN DropFirst(input, 2) ELSE Tail(input)
        IN  /\ result.dq_description =
                  (IF DescriptionCaptured THEN Some(trim(input[2])) ELSE None)
            /\ result.splits = parse_relay_splits(rest, FALSE).splits
            /\ \A k \in 1..4 :
                  /\ result.swimmers[k].name = parse_relay_swimmers(rest)[k].name
                  /\ result.swimmers[k].year = parse_relay_swimmers(rest)[k].year

C6_Witness ==
    /\ pc = RelayCall
    /\ result.status = "Some"
    /\ result.dq_description = Some(<<"D", "Q", " ", " ", "9", ".", "8", "7">>)
    /\ result.splits = <<>>
    /\ result.swimmers[1].name = <<"B", "o">>

\* the position of the first tail field the header claims: seed, final, points
\* when the last token is a small integer, else seed (if one is claimed), final
FirstTailField ==
    LET n == Len(HeaderParts)
    IN  IF parse_u8(HeaderParts[n]) # -1 THEN n - 2
        ELSE IF result.seed_time # None THEN n - 1
        ELSE n

\* C7: team_name is the single-space join of the tokens strictly between the
\* place token and the first tail field claimed; `-- Team DQ` yields the team
\* name `Team`, no seed time and the final time `DQ`.
C7_TeamName ==
    (pc = RelayCall /\ result.status = "Some") =>
        /\ result.team_name = join(SubSeq(HeaderParts, 2, FirstTailField - 1), <<" ">>)
        /\ HeaderParts = <<DqMarker, <<"L", "e", "o">>, <<"D", "Q">> >> =>
              /\ result.team_name = <<"L", "e", "o">>
              /\ result.seed_time = None
              /\ result.final_time = <<"D", "Q">>

-----------------------------------------------------------------------------
(* Claims about the splits extractors                                      *)

SplitCalls == {"event_handler::parse_splits", "relay_handler::parse_relay_splits"}

\* the cumulative-time tokens the extractor that returned accepts, in input order
AcceptedTimes ==
    IF pc = "event_handler::parse_splits"
    THEN SelectSeq(continuation_parts(SplitSection(input)),
                   LAMBDA p : event_part_kind(p) = "time")
    ELSE SelectSeq(relay_split_parts(Tail(SplitSection(input))),
                   LAMBDA p : relay_part_kind(p) = "time")

\* C2: for every list of continuation lines the i-th split returned (1-based)
\* has distance 50*i and the i-th accepted cumulative-time token as its time.
C2_SplitsRule ==
    (pc \in SplitCalls /\ ~result.panicked) =>
        LET accepted == AcceptedTimes
        IN  result.splits = [i \in DOMAIN accepted |-> [distance |-> 50 * i, time |-> accepted[i]]]

CountChar(s, c) == Cardinality({i \in DOMAIN s : s[i] = c})

\* token k of a line is printed inside parentheses: a parenthesis opened in or
\* before it is closed in or after it, and not before
InsideParens(toks, k) ==
    /\ CountChar(join(SubSeq(toks, 1, k), <<" ">>), "(")
          > CountChar(join(SubSeq(toks, 1, k - 1), <<" ">>), ")")
    /\ CountChar(join(SubSeq(toks, k, Len(toks)), <<" ">>), ")") > 0

\* the tokens one line prints inside parentheses
ParenthesizedOn(line) ==
    LET toks == split_whitespace(line)
    IN  {toks[k] : k \in {j \in DOMAIN toks : InsideParens(toks, j)}}

\* the tokens the continuation lines print inside parentheses
ParenthesizedTokens == UNION {ParenthesizedOn(input.lines[l]) : l \in DOMAIN input.lines}

\* C3: no time printed inside parentheses in a continuation line is stored as
\* the time of a Split, also when whitespace follows the opening parenthesis.
C3_NoParenthesizedTime ==
    (pc \in SplitCalls /\ ~result.panicked) =>
        LET inside == ParenthesizedTokens
        IN  \A i \in DOMAIN result.splits : result.splits[i].time \notin inside

-----------------------------------------------------------------------------
(* Claims about headers of the individual parser without a points field    *)

\* a header of at least 5 tokens whose last token is no points integer, with a
\* place number, a name and a class-year token before the seed time
NoPointsHeader(parts) ==
    /\ Len(parts) >= 5
    /\ parse_u8(parts[Len(parts)]) = -1
    /\ NumericU8(parts[1])
    /\ \E y \in 3..(Len(parts) - 2) : YearReference(parts[y])

\* C13: for a header line of at least 5 tokens whose last token is not a points
\* integer the individual parser yields a result whose final_time is the last
\* token and whose seed_time is the token before it, both when the last token
\* is one of DQ, DSQ, DFS, DNS and when it is not (exhibition entry).
C13_NoPointsHeader ==
    (pc = SwimmerCall /\ NoPointsHeader(HeaderParts)) =>
        /\ result.status = "Some"
        /\ result.final_time = HeaderParts[Len(HeaderParts)]
        /\ result.seed_time = Some(HeaderParts[Len(HeaderParts) - 1])

-----------------------------------------------------------------------------
(* Race classifier (metadata::parse_race_info)                             *)

\* the characters of a string literal
Chars(s) == [i \in 1..Len(s) |-> SubSeq(s, i, i)]

\* char::to_ascii_lowercase
to_ascii_lowercase(c) ==
    IF c \in Range(UpperSeq)
    THEN LowerSeq[CHOOSE i \in DOMAIN UpperSeq : UpperSeq[i] = c]
    ELSE c

\* str::to_lowercase on the characters of the model (U+017F is lower case)
to_lowercase(s) == [i \in DOMAIN s |-> to_ascii_lowercase(s[i])]

\* str::eq_ignore_ascii_case
eq_ignore_ascii_case(a, b) ==
    /\ len(a) = len(b)
    /\ Len(a) = Len(b)
    /\ \A i \in DOMAIN a : to_ascii_lowercase(a[i]) = to_ascii_lowercase(b[i])

\* u32::MAX and u16::MAX in decimal
U32MaxDigits == Chars("4294967295")

U16MaxDigits == Chars("65535")

DigitOf(c) == (CHOOSE i \in DOMAIN DigitSeq : DigitSeq[i] = c) - 1

RECURSIVE StripZeros(_)
StripZeros(digits) ==
    IF Len(digits) > 1 /\ Head(digits) = "0" THEN StripZeros(Tail(digits)) ELSE digits

\* the number the digits denote is at most the number max_digits denotes
FitsIn(digits, max_digits) ==
    LET d == StripZeros(digits)
    IN  \/ Len(d) < Len(max_digits)
        \/ /\ Len(d) = Len(max_digits)
           /\ \/ d = max_digits
              \/ \E k \in DOMAIN d :
                    /\ SubSeq(d, 1, k - 1) = SubSeq(max_digits, 1, k - 1)
                    /\ DigitOf(d[k]) < DigitOf(max_digits[k])

\* str::parse::<u32>() and str::parse::<u16>(): Ok(n) is n, Err is -1.  An
\* optional "+" sign, then one or more ASCII digits, and the value must fit.
parse_unsigned(s, max_digits) ==
    LET digits == IF Len(s) > 1 /\ s[1] = "+" THEN Tail(s) ELSE s
    IN  IF digits # <<>> /\ all_ascii_digit(digits) /\ FitsIn(digits, max_digits)
        THEN DigitsValue(StripZeros(digits))
        ELSE -1

parse_u32(s) == parse_unsigned(s, U32MaxDigits)

parse_u16(s) == parse_unsigned(s, U16MaxDigits)

GENDERS ==
    {Chars("Men"), Chars("Women"), Chars("Boys"), Chars("Girls"), Chars("Mixed"),
     Chars("Male"), Chars("Female")}

COURSE_WORDS ==
    {Chars("Yard"), Chars("Yards"), Chars("Meter"), Chars("Meters"), Chars("LC"),
     Chars("SC"), Chars("Long"), Chars("Short")}

STROKES ==
    {Chars("Freestyle"), Chars("Free"), Chars("Backstroke"), Chars("Back"),
     Chars("Breaststroke"), Chars("Breast"), Chars("Butterfly"), Chars("Fly"),
     Chars("Individual"), Chars("Medley"), Chars("IM"), Chars("Relay")}

is_gender(token) == \E g \in GENDERS : eq_ignore_ascii_case(g, token)

is_distance(token) == parse_u16(token) # -1

is_course_word(token) == \E c \in COURSE_WORDS : eq_ignore_ascii_case(c, token)

is_stroke_word(token) == \E w \in STROKES : eq_ignore_ascii_case(w, token)

\* a plausible slip: the vocabularies are compared case-sensitively
race_token_kind_exact_case(token) ==
    IF token \in GENDERS THEN "gender"
    ELSE IF is_distance(token) THEN "distance"
    ELSE IF token \in COURSE_WORDS THEN "course"
    ELSE IF token \in STROKES THEN "stroke"
    ELSE "other"

\* parse_race_info, the branch of the loop `for &token in remaining` a token takes
race_token_kind(token) ==
    IF is_gender(token) THEN "gender"
    ELSE IF is_distance(token) THEN "distance"
    ELSE IF is_course_word(token) THEN "course"
    ELSE IF is_stroke_word(token) THEN "stroke"
    ELSE "other"

\* a plausible slip: the first `Event` token that a number follows is taken
race_event_idx_first_pair(tokens) ==
    LET hits == {i \in DOMAIN tokens :
                    /\ eq_ignore_ascii_case(tokens[i], Chars("Event"))
                    /\ i < Len(tokens)
                    /\ parse_u32(tokens[i + 1]) # -1}
    IN  IF hits = {} THEN 0 ELSE CHOOSE i \in hits : \A j \in hits : i <= j

\* `tokens.iter().position(|&t| t.eq_ignore_ascii_case("Event"))`, 1-based;
\* 0 is None
race_event_idx(tokens) ==
    LET hits == {i \in DOMAIN tokens : eq_ignore_ascii_case(tokens[i], Chars("Event"))}
    IN  IF hits = {} THEN 0 ELSE CHOOSE i \in hits : \A j \in hits : i <= j

\* the last element of a vector of assignments, as an Option
LastWritten(values) == IF values = <<>> THEN None ELSE Some(values[Len(values)])

\* Some(parts.join(" ")), None for no parts
JoinedParts(parts) == IF parts = <<>> THEN None ELSE Some(join(parts, <<" ">>))

\* a plausible slip: the relay flag is read off the stroke tokens
race_is_relay_by_token(headline) ==
    \E i \in DOMAIN split_whitespace(headline) :
        eq_ignore_ascii_case(split_whitespace(headline)[i], Chars("Relay"))

\* `headline.to_lowercase().contains("relay")`
race_is_relay(headline) == contains(to_lowercase(headline), Chars("relay"))

\* metadata::parse_race_info; None is ReturnsNone
parse_race_info(headline) ==
    LET tokens == split_whitespace(headline)
        event_idx == race_event_idx(tokens)
    IN  IF event_idx = 0 THEN ReturnsNone
        ELSE IF event_idx + 1 > Len(tokens) THEN ReturnsNone
        ELSE IF parse_u32(tokens[event_idx + 1]) = -1 THEN ReturnsNone
        ELSE LET remaining == SubSeq(tokens, event_idx + 2, Len(tokens))
                 kind(k) == SelectSeq(remaining, LAMBDA t : race_token_kind(t) = k)
                 distances == kind("distance")
             IN  [status |-> "Some",
                  event_number |-> parse_u32(tokens[event_idx + 1]),
                  gender |-> LastWritten(kind("gender")),
                  distance |-> LastWritten([i \in DOMAIN distances |-> parse_u16(distances[i])]),
                  course |-> JoinedParts(kind("course")),
                  stroke |-> JoinedParts(kind("stroke")),
                  is_relay |-> race_is_relay(headline),
                  other |-> kind("other")]

-----------------------------------------------------------------------------
(* Specification of the race classifier: a headline is drawn and            *)
(* parse_race_info is applied to it.                                       *)

MaxHeadToks == 4

RacePool ==
    {Chars("event"), Chars("5"), Chars("Girls"), Chars("13-14"), Chars("LC"),
     Chars("meter"), Chars("Relays"), Chars("70000")}

\* the headlines of the documentation and the tests of metadata.rs
SampleHeadlines ==
    {Chars("Event 10  Men 200 Yard IM"),
     Chars("Event 10  Men 13-14 200 Yard IM"),
     Chars("Event 10  Boys 200 LC Meter Freestyle"),
     Chars("Event 5  Girls 13-14 100 Yard Freestyle"),
     Chars("Event 3  Women 200 LC Meter Backstroke"),
     Chars("Event 1  Men 400 Yard Medley Relay"),
     Chars("Event 7  Women 400 Yard Individual Medley"),
     Chars("Event 1  Men 50 Yard Free"),
     Chars("Event 4294967296  Men 50 Yard +50"),
     Chars("Finals  EVENT 12  mixed 200 Medley Relay")}

Headlines ==
    {join(toks, <<" ", " ">>) : toks \in Strings(RacePool, MaxHeadToks)}
    \cup SampleHeadlines

InitRace ==
    /\ input \in Headlines
    /\ pc = "start"
    /\ result = NoResult

CallParseRaceInfo == Apply("metadata::parse_race_info", parse_race_info(input))

NextRace == CallParseRaceInfo

SpecRace == InitRace /\ [][NextRace]_vars

-----------------------------------------------------------------------------
(* Claims about the race classifier                                        *)

RaceCall == "metadata::parse_race_info"

RaceTokens == split_whitespace(input)

\* the token is `Event`, in any case
IsEventToken(tok) ==
    [i \in DOMAIN tok |-> to_ascii_lowercase(tok[i])] = Chars("event")

\* the positions of the `Event` tokens that an integer token follows
EventPairs ==
    {i \in 1..(Len(RaceTokens) - 1) :
        IsEventToken(RaceTokens[i]) /\ parse_u32(RaceTokens[i + 1]) # -1}

\* the position of the first `Event` token, 0 when there is none
FirstEventToken ==
    LET hits == {i \in DOMAIN RaceTokens : IsEventToken(RaceTokens[i])}
    IN  IF hits = {} THEN 0 ELSE CHOOSE i \in hits : \A j \in hits : i <= j

\* C15 as stated: parse_race_info returns nothing iff no token `Event` (in any
\* case) is immediately followed by a token that parses as an integer; when
\* there is such a pair the descriptor's event_number is that integer.
C15_AnyEventPair ==
    pc = RaceCall =>
        /\ result.status = "None" <=> EventPairs = {}
        /\ EventPairs # {} =>
              /\ result.status = "Some"
              /\ \E i \in EventPairs : result.event_number = parse_u32(RaceTokens[i + 1])

\* C15 amended: parse_race_info returns nothing iff the headline has no token
\* `Event` (in any case) or the token right after the FIRST such token is
\* missing or does not parse as a u32; otherwise it returns a descriptor whose
\* event_number is the integer that follows the first `Event` token.
C15_FirstEventToken ==
    pc = RaceCall =>
        LET first == FirstEventToken
            paired == /\ first # 0
                      /\ first < Len(RaceTokens)
                      /\ parse_u32(RaceTokens[first + 1]) # -1
        IN  /\ result.status = "None" <=> ~paired
            /\ paired =>
                  /\ result.status = "Some"
                  /\ result.event_number = parse_u32(RaceTokens[first + 1])

C15_Witness ==
    /\ pc = RaceCall
    /\ RaceTokens = <<Chars("event"), Chars("event"), Chars("5")>>
    /\ result.status = "None"

\* the token belongs to a vocabulary, compared without regard to ASCII case
InVocabulary(tok, vocabulary) ==
    \E w \in vocabulary :
        [i \in DOMAIN w |-> to_ascii_lowercase(w[i])]
            = [i \in DOMAIN tok |-> to_ascii_lowercase(tok[i])]

\* the class of a token: the first vocabulary, in priority order, it belongs to
TokenClass(tok) ==
    IF InVocabulary(tok, GENDERS) THEN "gender"
    ELSE IF parse_u16(tok) # -1 THEN "distance"
    ELSE IF InVocabulary(tok, COURSE_WORDS) THEN "course"
    ELSE IF InVocabulary(tok, STROKES) THEN "stroke"
    ELSE "other"

\* the tokens after the event number that have class k, in encounter order
TokensOfClass(k) ==
    SelectSeq(SubSeq(RaceTokens, FirstEventToken + 2, Len(RaceTokens)),
              LAMBDA t : TokenClass(t) = k)

-----------------------------------------------------------------------------
(* Header metadata extractor (metadata::parse_event_metadata)              *)
(*                                                                         *)
(* A fetched page is the record [has_pre, lines]: whether the document has *)
(* a <pre> element, and the lines of the text of the first one.            *)

\* `trimmed.contains("Event") && trimmed.chars().any(|c| c.is_ascii_digit())`
is_headline_shaped(trimmed) ==
    /\ contains(trimmed, Chars("Event"))
    /\ \E i \in DOMAIN trimmed : is_ascii_digit(trimmed[i])

\* `trimmed.chars().filter(|c| c.is_ascii_digit()).count()`
digit_count(trimmed) == Cardinality({i \in DOMAIN trimmed : is_ascii_digit(trimmed[i])})

\* `trimmed.contains(':') && ...count() >= 4`
is_record_line(trimmed) == contains(trimmed, <<":">>) /\ digit_count(trimmed) >= 4

\* `trimmed.chars().next().map_or(false, |c| c.is_ascii_digit()) && !trimmed.contains(':')`
is_results_start(trimmed) ==
    /\ trimmed # <<>>
    /\ is_ascii_digit(trimmed[1])
    /\ ~contains(trimmed, <<":">>)

MetadataScanStart ==
    [header_lines |-> <<>>, event_headline |-> <<>>, records |-> <<>>, found_event |-> FALSE]

RECURSIVE metadata_scan(_, _)
\* parse_event_metadata, the loop `for line in &lines`
metadata_scan(st, lines) ==
    IF lines = <<>> THEN st
    ELSE LET trimmed == trim(Head(lines))
         IN  IF trimmed = <<>> THEN metadata_scan(st, Tail(lines))
             ELSE IF is_headline_shaped(trimmed)
             THEN metadata_scan([st EXCEPT !.event_headline = trimmed, !.found_event = TRUE],
                                Tail(lines))
             ELSE IF ~st.found_event
             THEN metadata_scan([st EXCEPT !.header_lines = Append(@, trimmed)], Tail(lines))
             ELSE LET collected == IF is_record_line(trimmed)
                                   THEN [st EXCEPT !.records = Append(@, trimmed)]
                                   ELSE st
                  IN  IF is_results_start(trimmed) THEN collected
                      ELSE metadata_scan(collected, Tail(lines))

\* `header_lines.first().cloned()`
metadata_venue(header_lines) ==
    IF header_lines # <<>> THEN Some(header_lines[1]) ELSE None

\* `header_lines.get(1).cloned()`
metadata_meet_name(header_lines) ==
    IF Len(header_lines) >= 2 THEN Some(header_lines[2]) ELSE None

\* metadata::parse_event_metadata; None is ReturnsNone
parse_event_metadata(page) ==
    IF ~page.has_pre THEN ReturnsNone
    ELSE LET st == metadata_scan(MetadataScanStart, page.lines)
         IN  [status |-> "Some",
              venue |-> metadata_venue(st.header_lines),
              meet_name |-> metadata_meet_name(st.header_lines),
              event_headline |-> st.event_headline,
              records |-> st.records]

-----------------------------------------------------------------------------
(* Specification of the header metadata extractor: a page is drawn (header *)
(* region, headline, the lines below it) and parse_event_metadata is       *)
(* applied to it.                                                          *)

MaxHeaderLines == 3

MaxBodyLines == 4

LicenseLine == Chars("Site License HY-TEK")

MeetLine == Chars("  NCAA Championships")

VenueLine == Chars("Aquatic Center  ")

HeadlineLine == Chars("Event 1  Men 200 Yard Freestyle")

DelimiterLine == Chars("=====")

RecordLine == Chars("  NCAA: 1:39.10 Leo")

RecordHolderLine == Chars("American Record Leo")

ResultLine == Chars("  1 Leon JR ASU 9.87 9.87 20")

HeaderLinePool == {LicenseLine, MeetLine, VenueLine, <<>>}

BodyLinePool == {DelimiterLine, RecordLine, RecordHolderLine, ResultLine, <<>>}

\* the lines between the header region and the lines below the headline
HeadlineChoices == {<<HeadlineLine>>, <<>>}

MetadataPages ==
    {[has_pre |-> TRUE, lines |-> h \o e \o <<DelimiterLine, RecordLine, DelimiterLine, ResultLine>>] :
        h \in Strings(HeaderLinePool, MaxHeaderLines), e \in HeadlineChoices}
    \cup {[has_pre |-> TRUE, lines |-> <<VenueLine, MeetLine>> \o e \o b] :
             e \in HeadlineChoices, b \in Strings(BodyLinePool, MaxBodyLines)}
    \cup {[has_pre |-> FALSE, lines |-> <<>>]}

InitMetadata ==
    /\ input \in MetadataPages
    /\ pc = "start"
    /\ result = NoResult

CallParseEventMetadata ==
    Apply("metadata::parse_event_metadata", parse_event_metadata(input))

NextMetadata == CallParseEventMetadata

SpecMetadata == InitMetadata /\ [][NextMetadata]_vars

-----------------------------------------------------------------------------
(* Claims about the header metadata extractor                              *)

MetadataCall == "metadata::parse_event_metadata"

\* the trimmed, non-empty lines of the page, in order
PageLines == SelectSeq([i \in DOMAIN input.lines |-> trim(input.lines[i])], LAMBDA l : l # <<>>)

\* a line that contains the literal `Event` and at least one digit
HeadlineShaped(line) ==
    contains(line, Chars("Event")) /\ \E i \in DOMAIN line : is_ascii_digit(line[i])

\* the position of the first headline-shaped line, Len + 1 when there is none
FirstHeadline ==
    LET hits == {i \in DOMAIN PageLines : HeadlineShaped(PageLines[i])}
    IN  IF hits = {} THEN Len(PageLines) + 1 ELSE CHOOSE i \in hits : \A j \in hits : i <= j

HeaderRegion == SubSeq(PageLines, 1, FirstHeadline - 1)

\* line number k of a list of lines, as an optional value
LineAt(lines, k) == IF k \in DOMAIN lines THEN Some(lines[k]) ELSE None

\* the positions of the header-region lines with `site license`, in any case
LicenseLines ==
    {i \in DOMAIN HeaderRegion :
        contains([k \in DOMAIN HeaderRegion[i] |-> to_ascii_lowercase(HeaderRegion[i][k])],
                 Chars("site license"))}

\* C18: when the header region has a line containing `site license` (in any
\* case) meet_name is the next header-region line after it and venue the one
\* after that; only without such a line is venue the first header-region line
\* and meet_name the second.
C18_SiteLicense ==
    (pc = MetadataCall /\ result.status = "Some" /\ FirstHeadline \in DOMAIN PageLines) =>
        IF LicenseLines # {}
        THEN LET l == CHOOSE i \in LicenseLines : \A j \in LicenseLines : i <= j
             IN  /\ result.meet_name = LineAt(HeaderRegion, l + 1)
                 /\ result.venue = LineAt(HeaderRegion, l + 2)
        ELSE /\ result.venue = LineAt(HeaderRegion, 1)
             /\ result.meet_name = LineAt(HeaderRegion, 2)

\* a line made only of `=` characters, at least 5 of them
IsDelimiter(line) == Len(line) >= 5 /\ \A i \in DOMAIN line : line[i] = "="

\* the lines below the headline
BelowHeadline == SubSeq(PageLines, FirstHeadline + 1, Len(PageLines))

\* the positions of the delimiter lines below the headline, in order
Delimiters ==
    LET hits == {i \in DOMAIN BelowHeadline : IsDelimiter(BelowHeadline[i])}
    IN  SelectSeq([i \in DOMAIN BelowHeadline |-> i], LAMBDA i : i \in hits)

\* C19: records is exactly the list of the lines strictly between the first and
\* the second delimiter line after the headline, in order; no line outside the
\* pair is a record.
C19_RecordsBetweenDelimiters ==
    (/\ pc = MetadataCall
     /\ result.status = "Some"
     /\ FirstHeadline \in DOMAIN PageLines
     /\ Len(Delimiters) >= 2) =>
        result.records = SubSeq(BelowHeadline, Delimiters[1] + 1, Delimiters[2] - 1)

-----------------------------------------------------------------------------
(* Event pages (event_handler::parse_individual_event_html,                *)
(* relay_handler::parse_relay_event_html, lib::process_event)              *)

\* event_handler::is_swimmer_line
is_swimmer_line(line) ==
    LET tokens == split_whitespace(line)
    IN  IF tokens # <<>> THEN all_ascii_digit(tokens[1]) ELSE FALSE

\* relay_handler::is_relay_team_line
is_relay_team_line(line) ==
    LET tokens == split_whitespace(line)
    IN  IF tokens # <<>>
        THEN LET is_place == all_ascii_digit(tokens[1])
                 is_dq == tokens[1] = <<"-", "-">>
             IN  (is_place \/ is_dq) /\ ~contains(line, <<")", " ">>)
        ELSE FALSE

\* the header test of a segmentation loop, applied to the trimmed line
is_header_line(parser, line) ==
    IF parser = "relay" THEN is_relay_team_line(trim(line)) ELSE is_swimmer_line(trim(line))

\* the inner `while`: the first index after i (1-based) whose line is a header
\* line, Len(lines) + 1 when there is none
next_main_line_idx(parser, lines, i) ==
    LET hits == {k \in (i + 1)..Len(lines) :
                    trim(lines[k]) # <<>> /\ is_header_line(parser, lines[k])}
    IN  IF hits = {} THEN Len(lines) + 1 ELSE CHOOSE k \in hits : \A m \in hits : k <= m

\* `if swimmers.len() >= 16 { break; }`
MaxSwimmers == 16

\* the indices (1-based) at which the outer `while` finds a header line, in
\* scan order: i advances by one over the other lines and jumps from a header
\* line to next_main_line_idx, which is the next header line or the end
section_starts(parser, lines) ==
    SelectSeq([i \in DOMAIN lines |-> i], LAMBDA i : is_header_line(parser, lines[i]))

\* `&lines[i..next_main_line_idx]`
section_at(parser, lines, i) == SubSeq(lines, i, next_main_line_idx(parser, lines, i) - 1)

\* the section parser of a loop
parse_section(parser, section, overflow_checks) ==
    IF parser = "relay"
    THEN parse_relay_team_section(section, overflow_checks)
    ELSE parse_swimmer_section(section, overflow_checks)

\* what the section parser returns for the sections that start at `starts`
parsed_sections_at(parser, lines, starts, overflow_checks) ==
    [k \in DOMAIN starts |->
        parse_section(parser, section_at(parser, lines, starts[k]), overflow_checks)]

\* what the section parser returns for each section, in scan order
parsed_sections(parser, lines, overflow_checks) ==
    parsed_sections_at(parser, lines, section_starts(parser, lines), overflow_checks)

\* a plausible slip: a section that does not parse leaves a record all the same
pushed_records_keep_failed(parsed) == parsed

\* `if let Some(x) = parse_..._section(..) { records.push(x); }` over the
\* sections visited
pushed_records(parsed) == SelectSeq(parsed, LAMBDA r : r.status = "Some")

\* the number of sections the loop visits: it breaks after the push that brings
\* the vector to `cap` records (cap = 0: the loop has no such break)
sections_visited(parsed, cap) ==
    LET full == {k \in DOMAIN parsed :
                    /\ parsed[k].status = "Some"
                    /\ Len(pushed_records(SubSeq(parsed, 1, k))) >= cap}
    IN  IF cap = 0 \/ full = {} THEN Len(parsed)
        ELSE CHOOSE k \in full : \A m \in full : k <= m

\* what the loop leaves: a panic of a section parser ends the call
loop_outcome(visited) ==
    IF \E k \in DOMAIN visited : visited[k].status = "Panic"
    THEN [panicked |-> TRUE, records |-> <<>>]
    ELSE [panicked |-> FALSE, records |-> pushed_records(visited)]

\* the loop over the results of the section parser
event_loop_on(parsed, cap) == loop_outcome(SubSeq(parsed, 1, sections_visited(parsed, cap)))

\* the loop `while i < lines.len()` of parse_individual_event_html (cap 16) and
\* of parse_relay_event_html (no cap)
event_loop(parser, lines, cap, overflow_checks) ==
    event_loop_on(parsed_sections(parser, lines, overflow_checks), cap)

\* `if let Some(pre) = document.select(&pre_selector).next() { ... }`
page_records(parser, page, cap, overflow_checks) ==
    IF page.has_pre THEN event_loop(parser, page.lines, cap, overflow_checks)
    ELSE [panicked |-> FALSE, records |-> <<>>]

\* `Ok(EventResults { .. })`
individual_results(looped, event_name, session, metadata, race_info) ==
    IF looped.panicked THEN Panics
    ELSE [status |-> "Ok",
          event_name |-> event_name,
          session |-> session,
          metadata |-> metadata,
          race_info |-> race_info,
          swimmers |-> looped.records]

\* `Ok(RelayResults { .. })`
relay_results(looped, event_name, session, metadata, race_info) ==
    IF looped.panicked THEN Panics
    ELSE [status |-> "Ok",
          event_name |-> event_name,
          session |-> session,
          metadata |-> metadata,
          race_info |-> race_info,
          teams |-> looped.records]

\* event_handler::parse_individual_event_html
parse_individual_event_html(page, event_name, session, metadata, race_info, overflow_checks) ==
    individual_results(page_records("individual", page, MaxSwimmers, overflow_checks),
                       event_name, session, metadata, race_info)

\* relay_handler::parse_relay_event_html
parse_relay_event_html(page, event_name, session, metadata, race_info, overflow_checks) ==
    relay_results(page_records("relay", page, 0, overflow_checks),
                  event_name, session, metadata, race_info)

FetchError == [status |-> "Err", error |-> "fetch_html failed"]

MetadataError == [status |-> "Err", error |-> "Could not find event metadata in page"]

\* `Ok(ParsedEvent::Relay(result))`, `Ok(ParsedEvent::Individual(result))`
parsed_event(kind, parsed) ==
    IF parsed.status = "Panic" THEN Panics
    ELSE [status |-> "Ok", kind |-> kind, value |-> parsed]

\* `race_info.as_ref().is_some_and(|info| info.is_relay)`
is_relay_event(race_info) == race_info.status = "Some" /\ race_info.is_relay

\* process_event, the dispatch on is_relay
dispatch_event(page, metadata, race_info, session, overflow_checks) ==
    IF is_relay_event(race_info)
    THEN parsed_event("Relay",
             parse_relay_event_html(page, metadata.event_headline, session, Some(metadata),
                                    race_info, overflow_checks))
    ELSE parsed_event("Individual",
             parse_individual_event_html(page, metadata.event_headline, session,
                                         Some(metadata), race_info, overflow_checks))

\* process_event once the page is fetched
process_fetched(page, metadata, session, overflow_checks) ==
    IF metadata.status = "None" THEN MetadataError
    ELSE dispatch_event(page, metadata, parse_race_info(metadata.event_headline), session,
                        overflow_checks)

\* lib::process_event; fetched tells whether fetch_html returned the page
process_event(page, session, fetched, overflow_checks) ==
    IF ~fetched THEN FetchError
    ELSE process_fetched(page, parse_event_metadata(page), session, overflow_checks)

-----------------------------------------------------------------------------
(* Specification of the header tests: a line of the text block is drawn    *)
(* and each segmentation loop applies its header test to it.               *)

MaxLineToks == 3

LineTokPool ==
    {Chars("7"), Chars("12"), Chars("--"), Chars("-"), Chars("Leo"), Chars("1)"),
     Chars("(9.87)"), Chars("9.87"), Chars("7th")}

BlockLines == {FormatLine(toks) : toks \in Strings(LineTokPool, MaxLineToks)}

InitLines ==
    /\ input \in BlockLines
    /\ pc = "start"
    /\ result = NoResult

\* `is_swimmer_line(lines[i].trim())`
CallIsSwimmerLine ==
    Apply("event_handler::is_swimmer_line", is_header_line("individual", input))

\* `is_relay_team_line(lines[i].trim())`
CallIsRelayTeamLine ==
    Apply("relay_handler::is_relay_team_line", is_header_line("relay", input))

NextLines ==
    \/ CallIsSwimmerLine
    \/ CallIsRelayTeamLine

SpecLines == InitLines /\ [][NextLines]_vars

-----------------------------------------------------------------------------
(* Claims about the header tests                                           *)

HeaderTests == {"event_handler::is_swimmer_line", "relay_handler::is_relay_team_line"}

\* non-empty and all ASCII digits, or the marker `--`
IsPlacementToken(tok) ==
    \/ tok # <<>> /\ \A i \in DOMAIN tok : is_ascii_digit(tok[i])
    \/ tok = <<"-", "-">>

\* the first whitespace-delimited token of the trimmed line is a placement token
StartsSection(line) ==
    /\ split_whitespace(trim(line)) # <<>>
    /\ IsPlacementToken(split_whitespace(trim(line))[1])

\* C11: in both segmentation loops a line starts a new record section iff,
\* after trimming, its first whitespace-delimited token is non-empty and all
\* ASCII digits or equals `--`; nothing else about the line matters.
C11_SectionHeader ==
    pc \in HeaderTests => (result <=> StartsSection(input))

-----------------------------------------------------------------------------
(* Specification of the event pages: a fetched page is drawn and the event *)
(* parsers and process_event are applied to it.  `input` is the page in    *)
(* compact form: whether it has a <pre> element, the lines at the top of   *)
(* its text, and a block of lines with the number of times it is repeated. *)

MaxPageLines == 2

ManySections == 17

Sessions == {"P", "F"}

RelayHeadline == Chars("Event 2  Women 400 Yard Medley Relay")

SubstringRelayHeadline == Chars("Event 3  Mixed 200 Yard FreeRELAYS")

UnparseableRelayHeadline == Chars("Event X  Mixed 4x100 Relay")

HeadlinePool ==
    {HeadlineLine, RelayHeadline, SubstringRelayHeadline, UnparseableRelayHeadline}

GoodSwimmerLine == Chars("  1 Leon JR ASU 9.87 9.87 20")

FewTokensLine == Chars("  3 Leo 9.87 20")

RelayTeamLine == Chars("  2 Arizona A 9.87 9.87 40")

DqTeamLine == Chars(" -- Leo 9.87 DQ")

ParenthesisLine == Chars("  5 Otto SO (AZ) UA 9.87 9.87 18")

SplitsLine == Chars("    r:+0.62 9.87 (9.87)")

RosterLine == Chars("    1) Bo SR 2) r:0.10 Ot SO")

EventLinePool ==
    {GoodSwimmerLine, FewTokensLine, RelayTeamLine, DqTeamLine, ParenthesisLine,
     SplitsLine, RosterLine, <<>>}

HeadlineBody == <<GoodSwimmerLine, SplitsLine, DqTeamLine, RosterLine>>

\* result blocks as the sheets print them: sections with continuation lines
SampleBlocks ==
    {<<GoodSwimmerLine, SplitsLine, FewTokensLine, SplitsLine, ParenthesisLine, SplitsLine>>,
     <<SplitsLine, FewTokensLine, <<>>, RelayTeamLine, RosterLine, GoodSwimmerLine>>,
     <<RelayTeamLine, RosterLine, SplitsLine, FewTokensLine, DqTeamLine, RosterLine>>,
     <<ParenthesisLine, RelayTeamLine, DqTeamLine, <<>>, GoodSwimmerLine>>}

CompactPages ==
    {[has_pre |-> TRUE, top |-> h, block |-> HeadlineBody, copies |-> 1] :
        h \in {<<l>> : l \in HeadlinePool} \cup {<<>>}}
    \cup {[has_pre |-> TRUE, top |-> <<HeadlineLine>>, block |-> b, copies |-> 1] :
             b \in Strings(EventLinePool, MaxPageLines) \cup SampleBlocks}
    \cup {[has_pre |-> TRUE, top |-> <<HeadlineLine>>,
           block |-> <<GoodSwimmerLine, SplitsLine, ParenthesisLine>>, copies |-> ManySections],
          [has_pre |-> TRUE, top |-> <<RelayHeadline>>,
           block |-> <<RelayTeamLine, RosterLine, DqTeamLine>>, copies |-> ManySections],
          [has_pre |-> FALSE, top |-> <<>>, block |-> <<>>, copies |-> 1]}

\* the page a compact page stands for
Page(compact) ==
    [has_pre |-> compact.has_pre,
     lines |-> compact.top \o Flatten([c \in 1..compact.copies |-> compact.block])]

InitEvent ==
    /\ input \in CompactPages
    /\ pc = "start"
    /\ result = NoResult

CallParseIndividualEventHtml ==
    \E session \in Sessions, overflow_checks \in BOOLEAN :
        Apply("event_handler::parse_individual_event_html",
              parse_individual_event_html(Page(input), <<>>, session, None, ReturnsNone,
                                          overflow_checks))

CallParseRelayEventHtml ==
    \E session \in Sessions, overflow_checks \in BOOLEAN :
        Apply("relay_handler::parse_relay_event_html",
              parse_relay_event_html(Page(input), <<>>, session, None, ReturnsNone,
                                     overflow_checks))

CallProcessEvent ==
    \E session \in Sessions, fetched \in BOOLEAN, overflow_checks \in BOOLEAN :
        Apply("lib::process_event", process_event(Page(input), session, fetched, overflow_checks))

NextEvent ==
    \/ CallParseIndividualEventHtml
    \/ CallParseRelayEventHtml
    \/ CallProcessEvent

SpecEvent == InitEvent /\ [][NextEvent]_vars

-----------------------------------------------------------------------------
(* Claims about the event pages                                            *)

IndividualHtmlCall == "event_handler::parse_individual_event_html"

RelayHtmlCall == "relay_handler::parse_relay_event_html"

ProcessEventCall == "lib::process_event"

\* C12: no cap on the number of records: for a text block whose n record
\* sections each parse successfully parse_individual_event_html returns the n
\* swimmers and parse_relay_event_html the n teams, in source order, for every
\* n (also n > 16).
C12_NoCap ==
    /\ (pc = IndividualHtmlCall /\ result.status = "Ok") =>
          LET parsed == parsed_sections("individual", Page(input).lines, FALSE)
          IN  (\A k \in DOMAIN parsed : parsed[k].status = "Some") => result.swimmers = parsed
    /\ (pc = RelayHtmlCall /\ result.status = "Ok") =>
          LET parsed == parsed_sections("relay", Page(input).lines, FALSE)
          IN  (\A k \in DOMAIN parsed : parsed[k].status = "Some") => result.teams = parsed

\* the section is unparseable: too few header tokens, or no class-year token in
\* the scan window between the place and the tail fields
Unparseable(section) ==
    LET parts == split_whitespace(trim(section[1]))
    IN  \/ Len(parts) < 6
        \/ \A y \in 2..(Len(parts) - 3) : ~YearReference(parts[y])

\* the lines of the page that belong to an unparseable individual section
UnparseableLines ==
    LET lines == Page(input).lines
        starts == section_starts("individual", lines)
    IN  UNION {IF Unparseable(section_at("individual", lines, starts[k]))
               THEN starts[k]..(next_main_line_idx("individual", lines, starts[k]) - 1)
               ELSE {} : k \in DOMAIN starts}

\* the page without the lines of its unparseable sections
WithoutUnparseable ==
    LET dropped == UnparseableLines
    IN  [has_pre |-> Page(input).has_pre,
         lines |-> [k \in DOMAIN SelectSeq([i \in DOMAIN Page(input).lines |-> i],
                                           LAMBDA i : i \notin dropped) |->
                       Page(input).lines[SelectSeq([i \in DOMAIN Page(input).lines |-> i],
                                                   LAMBDA i : i \notin dropped)[k]]]]

\* C14: an unparseable individual record section is dropped and nothing else
\* changes: the call returns Ok, and the swimmers returned are those returned
\* for the same page with the lines of the unparseable sections absent.
C14_DroppedSection ==
    (pc = IndividualHtmlCall /\ UnparseableLines # {}) =>
        /\ result.status = "Ok"
        /\ result.swimmers =
              parse_individual_event_html(WithoutUnparseable, <<>>, "F", None, ReturnsNone,
                                          FALSE).swimmers

C14_Witness ==
    /\ pc = IndividualHtmlCall
    /\ input.block = <<GoodSwimmerLine, SplitsLine, FewTokensLine, SplitsLine,
                       ParenthesisLine, SplitsLine>>
    /\ result.status = "Ok"
    /\ Len(result.swimmers) = 2
    /\ result.swimmers[1].name = Chars("Leon")
    /\ result.swimmers[2].name = Chars("Otto")

\* the headline contains `relay`, in any case
ContainsRelay(headline) ==
    \E i \in 1..(Len(headline) - 4) :
        [k \in 1..5 |-> to_ascii_lowercase(headline[i + k - 1])] = Chars("relay")

\* C17: the relay flag of a descriptor is true iff the headline contains `relay`
\* in any case, anywhere; process_event routes the page to the relay parser iff
\* a descriptor was produced and its flag is true, to the individual parser in
\* every other case.
C17_RelayRouting ==
    (pc = ProcessEventCall /\ result.status = "Ok") =>
        LET headline == result.value.event_name
            info == result.value.race_info
        IN  /\ info.status = "Some" => (info.is_relay <=> ContainsRelay(headline))
            /\ result.kind = "Relay" <=> (info.status = "Some" /\ ContainsRelay(headline))
            /\ result.kind = "Relay" => "teams" \in DOMAIN result.value
            /\ result.kind # "Relay" =>
                  /\ result.kind = "Individual"
                  /\ "swimmers" \in DOMAIN result.value

C17_Witness ==
    /\ pc = ProcessEventCall
    /\ input.top = <<SubstringRelayHeadline>>
    /\ result.status = "Ok"
    /\ result.kind = "Relay"
    /\ result.value.race_info.stroke = None
    /\ result.value.race_info.is_relay
    /\ Len(result.value.teams) = 2

\* C20: a page with no preformatted block yields an empty results list, not a
\* failure: both event parsers return Ok with zero results, and process_event,
\* once the page is fetched, returns a result set with an empty list.
C20_NoPreformattedBlock ==
    ~input.has_pre =>
        /\ pc = IndividualHtmlCall => (result.status = "Ok" /\ result.swimmers = <<>>)
        /\ pc = RelayHtmlCall => (result.status = "Ok" /\ result.teams = <<>>)
        /\ (pc = ProcessEventCall /\ result # FetchError) =>
              /\ result.status = "Ok"
              /\ result.kind = "Individual"
              /\ result.value.swimmers = <<>>

-----------------------------------------------------------------------------
(* Further claims about the splits extractors (SpecSplits)                 *)

\* C28: for whatever count n of cumulative-time tokens is found the distance
\* stored for the n-th split is 50*n: the 16-bit computation `(count + 1) * 50`
\* neither wraps nor aborts, also for n above 1310.
C28_NoOverflow ==
    pc \in SplitCalls =>
        /\ ~result.panicked
        /\ \A n \in DOMAIN result.splits : result.splits[n].distance = SplitDistance * n

-----------------------------------------------------------------------------
(* Further claims about the record parsers (Spec)                          *)

\* C25: for every record section handed to the relay parser (a header line
\* is_relay_team_line accepts, with any tail and any token count)
\* parse_relay_team_section returns a team or no result; it never aborts.
C25_NeverAborts ==
    (pc = RelayCall /\ is_relay_team_line(trim(input[1]))) =>
        result.status \in {"Some", "None"}

-----------------------------------------------------------------------------
(* Specification of the relay roster: a relay record section is drawn (a   *)
(* header line and roster, split and description lines below it), and the  *)
(* roster scan and the relay record parser are applied to it.              *)

MaxRosterLines == 2

\* a roster line with a parenthesized annotation that ends in `2)`
AnnotatedRoster ==
    <<Chars("1)"), Chars("Bo"), Chars("(v2)"), Chars("SR"),
      Chars("2)"), Chars("r:0.10"), Chars("Ot"), Chars("SO")>>

\* a roster line whose leg 3 holds a reaction token and no name
BareReactionRoster ==
    <<Chars("3)"), Chars("r:0.10"), Chars("4)"), Chars("Ne"), Chars("SR")>>

\* a roster line whose leg 1 holds a reaction token
ReactionFirstRoster == <<Chars("1)"), Chars("r:0.20"), Chars("Bo"), Chars("SR")>>

RosterLinePool ==
    {Roster12, Roster34, AnnotatedRoster, BareReactionRoster, ReactionFirstRoster,
     SplitLine, DigitsLine, DescriptionLine}

RosterSections ==
    {FormatSection(h, c) : h \in ContHeaders, c \in Strings(RosterLinePool, MaxRosterLines)}

InitRoster ==
    /\ input \in RosterSections
    /\ pc = "start"
    /\ result = NoResult

CallParseRelaySwimmers ==
    Apply("relay_handler::parse_relay_swimmers", parse_relay_swimmers(Tail(input)))

CallParseRelayTeam ==
    \E overflow_checks \in BOOLEAN :
        Apply("relay_handler::parse_relay_team_section",
              parse_relay_team_section(input, overflow_checks))

NextRoster ==
    \/ CallParseRelaySwimmers
    \/ CallParseRelayTeam

SpecRoster == InitRoster /\ [][NextRoster]_vars

-----------------------------------------------------------------------------
(* Claims about the relay roster                                           *)

RosterCall == "relay_handler::parse_relay_swimmers"

\* `k)` stands at position i of the line, at line start or after whitespace
LegMarkerAt(line, i, k) ==
    /\ i + 1 <= Len(line)
    /\ line[i] = DigitSeq[k + 1]
    /\ line[i + 1] = ")"
    /\ (i = 1 \/ is_whitespace(line[i - 1]))

\* the first position from `from` on where `k)` acts as a leg marker, 0 if none
FirstLegMarker(line, k, from) ==
    LET hits == {i \in from..Len(line) : LegMarkerAt(line, i, k)}
    IN  IF hits = {} THEN 0 ELSE SetMin(hits)

\* the text of leg k on the line: from just after its marker to just before the
\* next higher marker on the line, or to the end of the line
LegText(line, k) ==
    LET p == FirstLegMarker(line, k, 1)
        ends == {FirstLegMarker(line, m, p + 2) : m \in (k + 1)..4} \ {0}
        e == IF ends = {} THEN Len(line) + 1 ELSE SetMin(ends)
    IN  trim(SubSeq(line, p + 2, e - 1))

\* the lines of the section the roster scan reads: they have a letter other
\* than the reaction sentinel and start with a leg marker
RosterLines(lines) ==
    SelectSeq([i \in DOMAIN lines |-> trim(lines[i])],
              LAMBDA line : /\ \E i \in DOMAIN line :
                                   is_ascii_alphabetic(line[i]) /\ line[i] # "r"
                              /\ \E k \in 1..4 : FirstLegMarker(line, k, 1) = 1)

\* the roster lines that give leg k an entry
LegLines(lines, k) ==
    SelectSeq(RosterLines(lines),
              LAMBDA line : /\ FirstLegMarker(line, k, 1) # 0
                            /\ parse_single_relay_swimmer(LegText(line, k), k).found)

\* the entry of leg k after the scan: that of the last roster line that gives one
LegEntry(lines, k) ==
    LET given == LegLines(lines, k)
    IN  IF given = <<>> THEN EmptySwimmer
        ELSE parse_single_relay_swimmer(LegText(given[Len(given)], k), k).swimmer

\* an occurrence of `k)` that follows a character other than whitespace
StrayMarkers(line) ==
    {i \in 2..(Len(line) - 1) :
        /\ line[i] \in {"1", "2", "3", "4"}
        /\ line[i + 1] = ")"
        /\ ~is_whitespace(line[i - 1])}

\* C26: in the roster scan only a `k)` at line start or after whitespace acts
\* as a leg marker; a `k)` that follows another character neither starts a
\* leg, nor ends the text of the leg before it, nor hides a later marker `k)`
\* of the same line.
C26_LegMarkers ==
    pc = RosterCall => result = [k \in 1..4 |-> LegEntry(Tail(input), k)]

\* the continuation lines the roster and split scans read: those below the
\* header and below the disqualification description, if one was captured
ScannedLines ==
    DropFirst(input, IF result.dq_description # None THEN 2 ELSE 1)

StartsWithLegMarker(line) == \E k \in 1..4 : FirstLegMarker(line, k, 1) = 1

\* the reaction tokens of the continuation lines that are not roster lines
SplitLineReactions ==
    LET lines == SelectSeq([i \in DOMAIN ScannedLines |-> trim(ScannedLines[i])],
                           LAMBDA line : ~StartsWithLegMarker(line))
    IN  SelectSeq(Flatten([i \in DOMAIN lines |-> split_whitespace(lines[i])]),
                  LAMBDA tok : starts_with(tok, <<"r">>))

\* the roster text of leg k: its text on the last roster line that marks leg k
OwnRosterText(k) ==
    LET marked == SelectSeq(RosterLines(ScannedLines),
                            LAMBDA line : FirstLegMarker(line, k, 1) # 0)
    IN  IF marked = <<>> THEN <<>> ELSE split_whitespace(LegText(marked[Len(marked)], k))

\* C23: in every relay team result leg 1's reaction time is the first reaction
\* token of the split scan over the continuation lines that are not roster
\* lines (absent if there is none), never one of a roster line; the reaction
\* time of leg k (k = 2..4) is the first token of the leg's own roster text
\* when that token begins with `r`, and absent otherwise.  Stated for the
\* sections whose markers are all properly delimited.
C23_ReactionTimes ==
    (/\ pc = RelayCall
     /\ result.status = "Some"
     /\ \A i \in DOMAIN input : StrayMarkers(trim(input[i])) = {}) =>
        /\ result.swimmers[1].reaction_time =
              IF SplitLineReactions = <<>> THEN None ELSE Some(SplitLineReactions[1])
        /\ \A k \in 2..4 :
              result.swimmers[k].reaction_time =
                 IF OwnRosterText(k) # <<>> /\ starts_with(OwnRosterText(k)[1], <<"r">>)
                 THEN Some(OwnRosterText(k)[1])
                 ELSE None

-----------------------------------------------------------------------------
(* Specification of the segmentation loops, step by step: the text block   *)
(* of a page is drawn, one of the two loops is entered and every action is *)
(* one iteration of its `while i < lines.len()`.  `result` holds the state *)
(* of the loop: the index i (0-based, as in the source), the half-open     *)
(* ranges handed to the section parser so far, and the number of records   *)
(* pushed.                                                                 *)

MaxSegmentLines == 3

SegmentLinePool == {GoodSwimmerLine, DqTeamLine, FewTokensLine, SplitsLine, <<>>}

SegmentPages ==
    {[has_pre |-> TRUE, top |-> <<>>, block |-> b, copies |-> 1] :
        b \in Strings(SegmentLinePool, MaxSegmentLines)}
    \cup {[has_pre |-> TRUE, top |-> <<SplitsLine>>,
           block |-> <<GoodSwimmerLine, SplitsLine>>, copies |-> ManySections]}

InitSegment ==
    /\ input \in SegmentPages
    /\ pc = "start"
    /\ result = NoResult

\* `let mut i = 0;` with an empty vector of records
LoopStart(parser) ==
    [parser |-> parser, i |-> 0, sections |-> <<>>, pushed |-> 0, broke |-> FALSE]

\* the cap of the loop that runs (0: the loop has no `break`)
loop_cap(parser) == IF parser = "individual" THEN MaxSwimmers ELSE 0

EnterIndividualLoop ==
    /\ pc = "start"
    /\ pc' = "while"
    /\ result' = LoopStart("individual")
    /\ UNCHANGED input

EnterRelayLoop ==
    /\ pc = "start"
    /\ pc' = "while"
    /\ result' = LoopStart("relay")
    /\ UNCHANGED input

\* the inner `while`, 0-based: the index the section that starts at i ends before
section_end(parser, lines, i) == next_main_line_idx(parser, lines, i + 1) - 1

\* `if let Some(..) = parse_..._section(&lines[i..next_idx])`
section_parses(parser, lines, i, next_idx) ==
    parse_section(parser, SubSeq(lines, i + 1, next_idx), FALSE).status = "Some"

\* the state after an iteration on a header line: the record is pushed when the
\* section parses, and i jumps to next_idx unless the loop breaks at the cap
after_header_line(loop, next_idx, parses, cap) ==
    LET pushed == IF parses THEN loop.pushed + 1 ELSE loop.pushed
        breaks == parses /\ cap # 0 /\ pushed >= cap
    IN  [parser |-> loop.parser,
         i |-> IF breaks THEN loop.i ELSE next_idx,
         sections |-> Append(loop.sections, [from |-> loop.i, to |-> next_idx]),
         pushed |-> pushed,
         broke |-> breaks]

\* an iteration on a header line
StepHeaderLine ==
    /\ pc = "while"
    /\ result.i < Len(Page(input).lines)
    /\ is_header_line(result.parser, Page(input).lines[result.i + 1])
    /\ result' = after_header_line(
                     result,
                     section_end(result.parser, Page(input).lines, result.i),
                     section_parses(result.parser, Page(input).lines, result.i,
                                    section_end(result.parser, Page(input).lines, result.i)),
                     loop_cap(result.parser))
    /\ pc' = IF result'.broke THEN "done" ELSE "while"
    /\ UNCHANGED input

\* an iteration on any other line: `i += 1`
StepOtherLine ==
    /\ pc = "while"
    /\ result.i < Len(Page(input).lines)
    /\ ~is_header_line(result.parser, Page(input).lines[result.i + 1])
    /\ result' = [result EXCEPT !.i = result.i + 1]
    /\ UNCHANGED <<input, pc>>

\* `while i < lines.len()` fails: the loop is left
ExitLoop ==
    /\ pc = "while"
    /\ result.i >= Len(Page(input).lines)
    /\ pc' = "done"
    /\ UNCHANGED <<input, result>>

NextSegment ==
    \/ EnterIndividualLoop
    \/ EnterRelayLoop
    \/ StepHeaderLine
    \/ StepOtherLine
    \/ ExitLoop

SpecSegment == InitSegment /\ [][NextSegment]_vars

-----------------------------------------------------------------------------
(* Claims about the segmentation loops                                     *)

\* the 0-based indices of the header lines of the block, for the loop that ran
HeaderIndices ==
    {i \in 0..(Len(Page(input).lines) - 1) :
        is_header_line(result.parser, Page(input).lines[i + 1])}

\* the section that holds line i, if any
SectionsOf(i) ==
    {k \in DOMAIN result.sections : result.sections[k].from <= i /\ i < result.sections[k].to}

\* C27: the segmentation loop partitions the lines from the first header line
\* to the end of the block: every section is a half-open range [i, j) that
\* starts at a header line and ends just before the next header line or at the
\* end of the buffer, the sections are disjoint and in increasing order, every
\* line after the first header lies in the section of the nearest header line
\* before it, and the lines before the first header lie in no section.
C27_Partition ==
    pc = "done" =>
        LET sections == result.sections
            n == Len(Page(input).lines)
        IN  /\ \A k \in DOMAIN sections :
                  /\ sections[k].from \in HeaderIndices
                  /\ sections[k].from < sections[k].to
                  /\ sections[k].to \in HeaderIndices \cup {n}
                  /\ \A i \in (sections[k].from + 1)..(sections[k].to - 1) :
                        i \notin HeaderIndices
            /\ \A k \in 1..(Len(sections) - 1) : sections[k].to = sections[k + 1].from
            /\ \A i \in 0..(n - 1) :
                  IF \E h \in HeaderIndices : h <= i
                  THEN /\ Cardinality(SectionsOf(i)) = 1
                       /\ \A k \in SectionsOf(i) :
                             sections[k].from = SetMax({h \in HeaderIndices : h <= i})
                  ELSE SectionsOf(i) = {}

\* the loop index strictly increases from one iteration to the next
LoopIndexIncreases ==
    [][(pc = "while" /\ pc' = "while") => result'.i > result.i]_vars

-----------------------------------------------------------------------------
(* URL routines (lib::detect_url_type, meet_handler::validate_event_url,   *)
(* utils::extract_session_from_url, lib::parse)                            *)

VALID_DOMAIN == Chars("swimmeetresults.tech")

HtmSuffix == Chars(".htm")

\* the filename code must have at least this many bytes
MinCodeLen == 10

ends_with(s, p) == Len(p) <= Len(s) /\ SubSeq(s, Len(s) - Len(p) + 1, Len(s)) = p

RECURSIVE trim_end_matches(_, _)
\* s.trim_end_matches(p): every repetition of p at the end is removed
trim_end_matches(s, p) ==
    IF p # <<>> /\ ends_with(s, p)
    THEN trim_end_matches(SubSeq(s, 1, Len(s) - Len(p)), p)
    ELSE s

\* url.rsplit('/').next(): the text after the last `/`, the whole text if none
rsplit_first(s) ==
    LET slashes == {i \in DOMAIN s : s[i] = "/"}
    IN  IF slashes = {} THEN s ELSE SubSeq(s, SetMax(slashes) + 1, Len(s))

\* s.chars().nth(n), n counted from 0
chars_nth(s, n) == IF n >= 0 /\ n < Len(s) THEN Some(s[n + 1]) ELSE None

\* the number of characters of s that end at or before byte offset b when b
\* is a character boundary of s, and -1 when it is not
char_boundary(s, b) ==
    LET at == {k \in 0..Len(s) : len(SubSeq(s, 1, k)) = b}
    IN  IF at = {} THEN -1 ELSE SetMin(at)

\* lib::detect_url_type
detect_url_type(url) ==
    IF ends_with(trim_end_matches(url, <<"/">>), HtmSuffix) THEN "Event" ELSE "Meet"

\* the checks of validate_event_url after the filename code is known
validate_code(code) ==
    LET session == chars_nth(code, len(code) - 4)
        from == char_boundary(code, len(code) - 3)
    IN  IF len(code) < MinCodeLen THEN [status |-> "Err", error |-> "Invalid event filename"]
        ELSE IF session \notin {Some("P"), Some("F")}
        THEN [status |-> "Err", error |-> "Invalid session type"]
        \* `&code[code.len() - 3..]` panics when the offset is inside a character
        ELSE IF from = -1 THEN Panics
        ELSE IF ~all_ascii_digit(DropFirst(code, from))
        THEN [status |-> "Err", error |-> "Invalid event number"]
        ELSE [status |-> "Ok", session |-> session[1]]

\* the checks of validate_event_url on the URL without trailing slashes
validate_trimmed(url) ==
    IF ~contains(url, VALID_DOMAIN) THEN [status |-> "Err", error |-> "Invalid domain"]
    ELSE IF ~ends_with(url, HtmSuffix)
    THEN [status |-> "Err", error |-> "Event URL must end with .htm"]
    ELSE validate_code(trim_end_matches(rsplit_first(url), HtmSuffix))

\* meet_handler::validate_event_url
validate_event_url(url) == validate_trimmed(trim_end_matches(url, <<"/">>))

\* `code.chars().rev().nth(3)` matched against 'P' | 'F'
session_of_code(code) ==
    IF chars_nth(code, Len(code) - 4) \in {Some("P"), Some("F")}
    THEN chars_nth(code, Len(code) - 4)
    ELSE None

\* utils::extract_session_from_url
extract_session_from_url(url) ==
    session_of_code(trim_end_matches(rsplit_first(url), HtmSuffix))

SessionError == [status |-> "Err", error |-> "Could not determine session (P/F) from URL"]

\* lib::parse up to the call of process_meet or process_event
parse_route(url_type, session) ==
    IF url_type = "Meet" THEN [status |-> "process_meet"]
    ELSE IF session = None THEN SessionError
    ELSE [status |-> "process_event", session |-> session[1]]

\* lib::parse, the routing of a URL
parse(url) == parse_route(detect_url_type(url), extract_session_from_url(url))

-----------------------------------------------------------------------------
(* Specification of the URL routines: a URL is drawn and each routine is   *)
(* applied to it.                                                          *)

MaxSlashes == 1

UrlPrefixes ==
    {Chars("https://swimmeetresults.tech/NCAA/"), Chars("https://example.com/Meet/"), <<>>}

CodeStems == {Chars("240327"), Chars("24032"), Chars("24032") \o <<LongS, LongS>>, <<>>}

SessionChars == {"P", "F", "X"}

EventNumbers == {Chars("003"), Chars("0a3"), Chars("0")}

Extensions == {HtmSuffix, Chars(".html"), <<>>}

Urls ==
    {prefix \o stem \o <<session>> \o number \o extension \o [i \in 1..slashes |-> "/"] :
        prefix \in UrlPrefixes, stem \in CodeStems, session \in SessionChars,
        number \in EventNumbers, extension \in Extensions, slashes \in {0, MaxSlashes}}

InitUrl ==
    /\ input \in Urls
    /\ pc = "start"
    /\ result = NoResult

CallDetectUrlType == Apply("lib::detect_url_type", detect_url_type(input))

CallValidateEventUrl == Apply("meet_handler::validate_event_url", validate_event_url(input))

CallExtractSessionFromUrl ==
    Apply("utils::extract_session_from_url", extract_session_from_url(input))

CallParse == Apply("lib::parse", parse(input))

NextUrl ==
    \/ CallDetectUrlType
    \/ CallValidateEventUrl
    \/ CallExtractSessionFromUrl
    \/ CallParse

SpecUrl == InitUrl /\ [][NextUrl]_vars

-----------------------------------------------------------------------------
(* Claims about the URL routines                                           *)

ParseCall == "lib::parse"

ValidateCall == "meet_handler::validate_event_url"

\* C29: the three URL routines agree: for every URL that detect_url_type
\* classifies as Event and for which validate_event_url returns Ok(s),
\* extract_session_from_url returns Some(s), so parse goes on to process_event
\* with session s and never fails with `Could not determine session`; URLs
\* with a trailing slash included.
C29_RoutinesAgree ==
    (/\ pc = ParseCall
     /\ detect_url_type(input) = "Event"
     /\ validate_event_url(input).status = "Ok") =>
        /\ extract_session_from_url(input) = Some(validate_event_url(input).session)
        /\ result = [status |-> "process_event", session |-> validate_event_url(input).session]

\* the URL with its trailing slashes removed
UrlTrimmed == trim_end_matches(input, <<"/">>)

\* the filename code of the URL: the text after the last `/`, without `.htm`
UrlCode ==
    LET filename == rsplit_first(UrlTrimmed)
    IN  IF ends_with(filename, HtmSuffix)
        THEN SubSeq(filename, 1, Len(filename) - Len(HtmSuffix))
        ELSE filename

\* the checks of the claim, in their order, each with the error of its failure
UrlChecks ==
    << [holds |-> contains(UrlTrimmed, VALID_DOMAIN), error |-> "Invalid domain"],
       [holds |-> ends_with(UrlTrimmed, HtmSuffix), error |-> "Event URL must end with .htm"],
       [holds |-> Len(UrlCode) >= MinCodeLen, error |-> "Invalid event filename"],
       [holds |-> Len(UrlCode) >= 4 /\ UrlCode[Len(UrlCode) - 3] \in {"P", "F"},
        error |-> "Invalid session type"],
       [holds |-> Len(UrlCode) >= 3 /\ all_ascii_digit(DropFirst(UrlCode, Len(UrlCode) - 3)),
        error |-> "Invalid event number"] >>

FailedChecks == {k \in DOMAIN UrlChecks : ~UrlChecks[k].holds}

\* C24: validate_event_url returns Ok(session) iff the URL without trailing
\* slashes contains the domain, ends with `.htm`, has a filename code of at
\* least 10 characters, has `P` or `F` just before the trailing three
\* characters, and those three are digits; the session returned is that
\* character, and the error is that of the first failing check.
C24_ValidateEventUrl ==
    pc = ValidateCall =>
        IF FailedChecks = {}
        THEN result = [status |-> "Ok", session |-> UrlCode[Len(UrlCode) - 3]]
        ELSE result = [status |-> "Err", error |-> UrlChecks[SetMin(FailedChecks)].error]

-----------------------------------------------------------------------------
(* Meet index (meet_handler::EventLink::from_element, Event::set_link,     *)
(* parse_meet_index) and the tasks process_meet makes of it                *)

RECURSIVE str_replace(_, _)
\* s.replace(p, ""): every occurrence of p is removed, left to right
str_replace(s, p) ==
    IF ~contains(s, p) THEN s
    ELSE SubSeq(s, 1, find(s, p)) \o str_replace(DropFirst(s, find(s, p) + Len(p)), p)

\* text.split_once(' ').map(|(_, rest)| rest.trim()).unwrap_or(&text)
\*     .replace(" Prelims", "").replace(" Finals", "")
clean_event_name(text) ==
    LET rest == IF contains(text, <<" ">>)
                THEN trim(DropFirst(text, find(text, <<" ">>) + 1))
                ELSE text
    IN  str_replace(str_replace(rest, Chars(" Prelims")), Chars(" Finals"))

\* `code[code.len() - 3..].parse().unwrap_or(0)`
link_event_num(digits) == IF parse_u32(digits) = -1 THEN 0 ELSE parse_u32(digits)

\* EventLink::from_element once href and text are known; code is the href
\* without `.htm`
event_link_of(href, text, code) ==
    LET session == chars_nth(code, len(code) - 4)
        from == char_boundary(code, len(code) - 3)
    IN  IF ~ends_with(href, HtmSuffix) THEN ReturnsNone
        ELSE IF len(code) < 4 THEN ReturnsNone
        ELSE IF session \notin {Some("P"), Some("F")} THEN ReturnsNone
        \* `code[code.len() - 3..]` panics when the offset is inside a character
        ELSE IF from = -1 THEN Panics
        ELSE [status |-> "Some",
              href |-> href,
              event_name |-> clean_event_name(text),
              event_num |-> link_event_num(DropFirst(code, from)),
              session |-> session[1]]

\* meet_handler::EventLink::from_element; a link is its href attribute and its
\* first text node, each of which may be missing
from_element(link) ==
    IF link.href = None \/ link.text = None THEN ReturnsNone
    ELSE event_link_of(link.href[1], link.text[1], trim_end_matches(link.href[1], HtmSuffix))

\* meet_handler::Event::new
new_event(name, number) ==
    [name |-> name, number |-> number, prelims_link |-> None, finals_link |-> None]

\* a plausible slip: a link that is already set is kept
set_link_keep_first(event, link, session) ==
    IF session = "P" /\ event.prelims_link = None THEN [event EXCEPT !.prelims_link = Some(link)]
    ELSE IF session = "F" /\ event.finals_link = None
    THEN [event EXCEPT !.finals_link = Some(link)]
    ELSE event

\* meet_handler::Event::set_link
set_link(event, link, session) ==
    IF session = "P" THEN [event EXCEPT !.prelims_link = Some(link)]
    ELSE IF session = "F" THEN [event EXCEPT !.finals_link = Some(link)]
    ELSE event

\* `format!("{}/{}", url, event_link.href)`
full_url(url, href) == url \o <<"/">> \o href

\* parse_meet_index, the body of `if let Some(event_link) = ..`: events is the
\* map of the meet, from names to events
index_link(events, url, event_link) ==
    [name \in DOMAIN events \cup {event_link.event_name} |->
        IF name # event_link.event_name THEN events[name]
        ELSE IF name \in DOMAIN events
        THEN set_link(events[name], full_url(url, event_link.href), event_link.session)
        ELSE set_link(new_event(name, event_link.event_num),
                      full_url(url, event_link.href), event_link.session)]

\* process_meet: the tasks of one event, prelims before finals
tasks_of_event(event) ==
    (IF event.prelims_link = None THEN <<>>
     ELSE <<[event_name |-> event.name, link |-> event.prelims_link[1], session |-> "P"]>>)
    \o (IF event.finals_link = None THEN <<>>
        ELSE <<[event_name |-> event.name, link |-> event.finals_link[1], session |-> "F"]>>)

\* process_meet: `meet.events.iter().flat_map(..).collect()`; order is the
\* order in which the map yields its names
event_tasks(events, order) == Flatten([k \in DOMAIN order |-> tasks_of_event(events[order[k]])])

\* the orders in which a map with these keys may yield them
iteration_orders(keys) ==
    {order \in [1..Cardinality(keys) -> keys] :
        \A a, b \in 1..Cardinality(keys) : a # b => order[a] # order[b]}

-----------------------------------------------------------------------------
(* Specification of the meet index: the links of an index page are drawn,  *)
(* and every action is one iteration of the loop of parse_meet_index over  *)
(* them, its return, or the making of the tasks in process_meet.  `result` *)
(* holds the map of events and the number of links consumed.               *)

MaxLinks == 3

MeetUrl == Chars("https://swimmeetresults.tech/NCAA")

IndexLink(href, text) == [href |-> Some(Chars(href)), text |-> Some(Chars(text))]

PrelimsLink == IndexLink("240327P001.htm", "#1 500 Free Prelims")

LaterPrelimsLink == IndexLink("240328P001.htm", "#1 500 Free Prelims")

FinalsLink == IndexLink("240327F001.htm", "#1 500 Free Finals")

RenumberedFinalsLink == IndexLink("240327F002.htm", "#2 500 Free Finals")

OtherEventLink == IndexLink("240327P003.htm", "#3 200 IM")

LinkPool ==
    {PrelimsLink, LaterPrelimsLink, FinalsLink, RenumberedFinalsLink, OtherEventLink,
     IndexLink("evtindex.htm", "Index"),
     [href |-> Some(Chars("240327F004.htm")), text |-> None],
     \* the offset of the number is inside the second two-byte character
     [href |-> Some(<<LongS>> \o Chars("2403") \o <<LongS>> \o Chars("P0.htm")),
      text |-> Some(Chars("#5 100 Fly"))]}

InitIndex ==
    /\ input \in Strings(LinkPool, MaxLinks)
    /\ pc = "start"
    /\ result = NoResult

\* `let mut meet = Meet::new(url.to_string());`
StartIndex ==
    /\ pc = "start"
    /\ pc' = "for link"
    /\ result' = [events |-> <<>>, consumed |-> 0]
    /\ UNCHANGED input

\* an iteration on a link from_element rejects
SkipLink ==
    /\ pc = "for link"
    /\ result.consumed < Len(input)
    /\ from_element(input[result.consumed + 1]).status = "None"
    /\ result' = [result EXCEPT !.consumed = result.consumed + 1]
    /\ UNCHANGED <<input, pc>>

\* an iteration on an event link: its event is updated or added
IndexEventLink ==
    /\ pc = "for link"
    /\ result.consumed < Len(input)
    /\ from_element(input[result.consumed + 1]).status = "Some"
    /\ result' = [events |-> index_link(result.events, MeetUrl,
                                        from_element(input[result.consumed + 1])),
                  consumed |-> result.consumed + 1]
    /\ UNCHANGED <<input, pc>>

\* an iteration on a link in which from_element panics
PanicOnLink ==
    /\ pc = "for link"
    /\ result.consumed < Len(input)
    /\ from_element(input[result.consumed + 1]).status = "Panic"
    /\ pc' = "panic"
    /\ UNCHANGED <<input, result>>

\* `Ok(meet)`
ReturnMeet ==
    /\ pc = "for link"
    /\ result.consumed = Len(input)
    /\ pc' = "meet"
    /\ UNCHANGED <<input, result>>

\* process_meet: the tasks are collected from the map
CollectEventTasks ==
    /\ pc = "meet"
    /\ \E order \in iteration_orders(DOMAIN result.events) :
          result' = [events |-> result.events,
                     consumed |-> result.consumed,
                     event_tasks |-> event_tasks(result.events, order)]
    /\ pc' = "tasks"
    /\ UNCHANGED input

NextIndex ==
    \/ StartIndex
    \/ SkipLink
    \/ IndexEventLink
    \/ PanicOnLink
    \/ ReturnMeet
    \/ CollectEventTasks

SpecIndex == InitIndex /\ [][NextIndex]_vars

-----------------------------------------------------------------------------
(* Claims about the meet index                                             *)

\* the event links of the page, in document order
AcceptedLinks ==
    SelectSeq([i \in DOMAIN input |-> from_element(input[i])], LAMBDA l : l.status = "Some")

\* the URLs of the links with this name and session, in document order
LinkUrls(name, session) ==
    LET links == SelectSeq(AcceptedLinks,
                           LAMBDA l : l.event_name = name /\ l.session = session)
    IN  [i \in DOMAIN links |-> full_url(MeetUrl, links[i].href)]

LastOf(urls) == IF urls = <<>> THEN None ELSE Some(urls[Len(urls)])

\* the number of the first link seen with this name
FirstNumber(name) ==
    SelectSeq(AcceptedLinks, LAMBDA l : l.event_name = name)[1].event_num

\* C30: after parse_meet_index has processed the links the meet holds one
\* entry per distinct cleaned event name, every entry has a link set, its
\* prelims_link (finals_link) is the URL of the last P (F) link with that name
\* and is absent when there was none, its number is that of the first link
\* seen for the name; and process_meet makes exactly one task per set link.
C30_MeetIndex ==
    /\ pc \in {"meet", "tasks"} =>
          /\ DOMAIN result.events = {AcceptedLinks[i].event_name : i \in DOMAIN AcceptedLinks}
          /\ \A name \in DOMAIN result.events :
                /\ result.events[name].name = name
                /\ result.events[name].prelims_link = LastOf(LinkUrls(name, "P"))
                /\ result.events[name].finals_link = LastOf(LinkUrls(name, "F"))
                /\ \/ result.events[name].prelims_link # None
                   \/ result.events[name].finals_link # None
                /\ result.events[name].number = FirstNumber(name)
    /\ pc = "tasks" =>
          /\ \A name \in DOMAIN result.events, session \in {"P", "F"} :
                Cardinality({k \in DOMAIN result.event_tasks :
                                /\ result.event_tasks[k].event_name = name
                                /\ result.event_tasks[k].session = session})
                   = Len(LastOf(LinkUrls(name, session)))
          /\ \A k \in DOMAIN result.event_tasks :
                LastOf(LinkUrls(result.event_tasks[k].event_name,
                                result.event_tasks[k].session))
                   = Some(result.event_tasks[k].link)

C30_Witness ==
    /\ pc = "tasks"
    /\ input = <<PrelimsLink, RenumberedFinalsLink, LaterPrelimsLink>>
    /\ DOMAIN result.events = {Chars("500 Free")}
    /\ result.events[Chars("500 Free")].number = 1
    /\ result.events[Chars("500 Free")].prelims_link
          = Some(Chars("https://swimmeetresults.tech/NCAA/240328P001.htm"))
    /\ Len(result.event_tasks) = 2

-----------------------------------------------------------------------------
(* Meet processing: lib::process_meet and meet_handler::process_meet, which *)
(* run one process_event per task and join them, and the loop of           *)
(* main::process_meet_pages, which fetches one page per event in turn.     *)

NoOutcome == [status |-> "Pending"]

\* the output of the future `process_event(link, *session)`: what the page
\* yields is drawn by the caller; a result keeps the session it was given,
\* and `page` is the URL its html was fetched from
event_future(url, session, outcome) ==
    IF outcome = "Err" THEN [status |-> "Err"]
    ELSE [status |-> "Ok", kind |-> outcome, session |-> session, page |-> url]

\* a plausible slip: the results are taken in the order of completion
join_all_as_completed(outcomes, completion) ==
    [k \in DOMAIN completion |-> outcomes[completion[k]]]

\* `join_all(futures).await`: the outputs in the order of the futures
join_all(outcomes, completion) ==
    [i \in DOMAIN outcomes |-> outcomes[i]]

\* the loop `for (i, result) in results.into_iter().enumerate()`: every
\* result with the name of the task at its index
named_results(tasks, results) ==
    [i \in DOMAIN results |->
        [event_name |-> tasks[i].event_name, result |-> results[i]]]

\* `individual_results` / `relay_results` after the loop
results_of_kind(results, kind) ==
    SelectSeq(results, LAMBDA r : r.status = "Ok" /\ r.kind = kind)

\* the names printed by `eprintln!("Error processing {}: {}", event_name, e)`
reported_errors(named) ==
    LET failed == SelectSeq(named, LAMBDA n : n.result.status = "Err")
    IN  [k \in DOMAIN failed |-> failed[k].event_name]

\* process_meet from the joined results to its return value
collect_results(tasks, results) ==
    [individual_results |-> results_of_kind(results, "Individual"),
     relay_results |-> results_of_kind(results, "Relay"),
     errors |-> reported_errors(named_results(tasks, results))]

\* main::process_meet_pages: the page fetched for an event, finals if it has
\* them, else prelims
page_of_event(event) ==
    IF event.finals_link # None
    THEN Some([event_name |-> event.name, link |-> event.finals_link[1], session |-> "F"])
    ELSE IF event.prelims_link # None
    THEN Some([event_name |-> event.name, link |-> event.prelims_link[1], session |-> "P"])
    ELSE None

RelayUnsupported == "Relay events are not currently supported"

\* page_handler::process_event_page once the page is fetched (fetched = FALSE
\* is an error of fetch_page)
process_event_page(event_name, page_url, event_type, fetched) ==
    IF ~fetched THEN [status |-> "Err", error |-> "fetch"]
    ELSE IF contains(event_name, Chars("Relay"))
    THEN [status |-> "Err", error |-> RelayUnsupported]
    ELSE [status |-> "Ok", kind |-> "Individual", session |-> event_type, page |-> page_url]

-----------------------------------------------------------------------------
(* Specification of meet processing: a meet is drawn; process_meet starts  *)
(* its tasks, which complete in any order, and collects; process_meet_pages *)
(* goes through the events one page at a time.                             *)

MaxEvents == 2

MeetEvent(name, number, prelims, finals) ==
    LET created == new_event(Chars(name), number)
        with_prelims == IF prelims = "" THEN created
                        ELSE set_link(created, full_url(MeetUrl, Chars(prelims)), "P")
    IN  IF finals = "" THEN with_prelims
        ELSE set_link(with_prelims, full_url(MeetUrl, Chars(finals)), "F")

EventPool ==
    {MeetEvent("500 Free", 1, "240327P001.htm", "240327F001.htm"),
     MeetEvent("200 IM", 3, "240327P003.htm", ""),
     MeetEvent("400 Medley Relay", 7, "", "240328F007.htm")}

Meets ==
    {[name \in {e.name : e \in events} |-> CHOOSE e \in events : e.name = name] :
        events \in {es \in SUBSET EventPool : Cardinality(es) <= MaxEvents}}

TaskOutcomes == {"Individual", "Relay", "Err"}

InitMeet ==
    /\ input \in Meets
    /\ pc = "start"
    /\ result = NoResult

\* process_meet up to `join_all(futures)`: the tasks are made, none is done
StartProcessMeet ==
    /\ pc = "start"
    /\ \E order \in iteration_orders(DOMAIN input) :
          result' = [event_tasks |-> event_tasks(input, order),
                     outcomes |-> [i \in DOMAIN event_tasks(input, order) |-> NoOutcome],
                     completion |-> <<>>]
    /\ pc' = "join_all"
    /\ UNCHANGED input

\* one process_event returns, with a result or an error
CompleteTask ==
    /\ pc = "join_all"
    /\ \E i \in DOMAIN result.event_tasks, outcome \in TaskOutcomes :
          /\ result.outcomes[i] = NoOutcome
          /\ result' = [result EXCEPT
                           !.outcomes[i] = event_future(result.event_tasks[i].link,
                                                        result.event_tasks[i].session,
                                                        outcome),
                           !.completion = Append(result.completion, i)]
    /\ UNCHANGED <<input, pc>>

\* one process_event panics in a parser: the panic unwinds through join_all
\* and process_meet
PanicInTask ==
    /\ pc = "join_all"
    /\ \E i \in DOMAIN result.event_tasks : result.outcomes[i] = NoOutcome
    /\ pc' = "panic"
    /\ UNCHANGED <<input, result>>

\* process_meet from the return of join_all to its own return
CollectResults ==
    /\ pc = "join_all"
    /\ \A i \in DOMAIN result.event_tasks : result.outcomes[i] # NoOutcome
    /\ result' = [event_tasks |-> result.event_tasks,
                  outcomes |-> result.outcomes,
                  completion |-> result.completion,
                  returned |-> collect_results(result.event_tasks,
                                               join_all(result.outcomes, result.completion))]
    /\ pc' = "collected"
    /\ UNCHANGED input

\* process_meet_pages up to its loop
StartProcessMeetPages ==
    /\ pc = "start"
    /\ \E order \in iteration_orders(DOMAIN input) :
          result' = [order |-> order, i |-> 0, printed |-> <<>>, skipped |-> <<>>]
    /\ pc' = "for event"
    /\ UNCHANGED input

\* the outcome of one iteration of process_meet_pages
after_event_page(loop, event_name, page) ==
    IF page.status = "Ok"
    THEN [loop EXCEPT !.i = loop.i + 1, !.printed = Append(loop.printed, page)]
    ELSE IF page.error = RelayUnsupported
    THEN [loop EXCEPT !.i = loop.i + 1, !.skipped = Append(loop.skipped, event_name)]
    ELSE loop

\* one iteration of the loop of process_meet_pages; an error that is not
\* the relay one is returned
ProcessEventPage ==
    /\ pc = "for event"
    /\ result.i < Len(result.order)
    /\ \E fetched \in BOOLEAN :
          LET task == page_of_event(input[result.order[result.i + 1]])[1]
              page == process_event_page(task.event_name, task.link, task.session, fetched)
          IN  /\ result' = after_event_page(result, task.event_name, page)
              /\ pc' = IF page.status = "Err" /\ page.error # RelayUnsupported
                       THEN "returned Err" ELSE "for event"
    /\ UNCHANGED input

\* `Ok(())` after the last event
FinishMeetPages ==
    /\ pc = "for event"
    /\ result.i = Len(result.order)
    /\ pc' = "returned Ok"
    /\ UNCHANGED <<input, result>>

NextMeet ==
    \/ StartProcessMeet
    \/ CompleteTask
    \/ PanicInTask
    \/ CollectResults
    \/ StartProcessMeetPages
    \/ ProcessEventPage
    \/ FinishMeetPages

SpecMeet == InitMeet /\ [][NextMeet]_vars

-----------------------------------------------------------------------------
(* Claims about meet processing                                            *)

\* the indices of the tasks whose output satisfies Test, in increasing order
TaskIndices(Test(_)) ==
    LET chosen == {i \in DOMAIN result.outcomes : Test(result.outcomes[i])}
    IN  CHOOSE idx \in [1..Cardinality(chosen) -> chosen] :
            \A a, b \in 1..Cardinality(chosen) : a < b => idx[a] < idx[b]

IsIndividual(outcome) == outcome.status = "Ok" /\ outcome.kind = "Individual"

IsRelay(outcome) == outcome.status = "Ok" /\ outcome.kind = "Relay"

IsError(outcome) == outcome.status = "Err"

\* the list holds, position by position, results fetched from the links of
\* the tasks at these indices, each with the session of its task and of its
\* link
MatchesTasks(list, idx) ==
    /\ Len(list) = Len(idx)
    /\ \A k \in DOMAIN list :
          /\ list[k].page = result.event_tasks[idx[k]].link
          /\ list[k].session = result.event_tasks[idx[k]].session
          /\ extract_session_from_url(list[k].page) = Some(list[k].session)

\* C22: whatever the order in which the tasks completed, the results
\* process_meet collects are those of the tasks in task order: every returned
\* result was fetched from the link of its own task and carries that link's
\* session, and every error is reported with the name of the task that failed.
C22_ResultsMatchTasks ==
    pc = "collected" =>
        /\ MatchesTasks(result.returned.individual_results, TaskIndices(IsIndividual))
        /\ MatchesTasks(result.returned.relay_results, TaskIndices(IsRelay))
        /\ result.returned.errors
              = [k \in DOMAIN TaskIndices(IsError) |->
                    result.event_tasks[TaskIndices(IsError)[k]].event_name]

\* three tasks completed last to first, the second with an error
C22_Witness ==
    /\ pc = "collected"
    /\ Len(result.event_tasks) = 3
    /\ result.completion = <<3, 2, 1>>
    /\ result.outcomes[1].status = "Ok"
    /\ result.outcomes[2].status = "Err"
    /\ result.outcomes[3].status = "Ok"
    /\ result.event_tasks[2].event_name # result.event_tasks[3].event_name
    /\ result.returned.errors = <<result.event_tasks[2].event_name>>

\* the links of the tasks that succeeded
SucceededLinks ==
    {result.event_tasks[i].link :
        i \in {j \in DOMAIN result.event_tasks : result.outcomes[j].status = "Ok"}}

ReturnedPages(list) == {list[k].page : k \in DOMAIN list}

\* C21: a failing event page affects no other event: process_meet always
\* returns, its two lists hold exactly the results of the tasks that
\* succeeded, and no run of meet processing stops before every event of the
\* meet has had its page processed.
C21_FailureIsolation ==
    /\ pc # "panic"
    /\ pc = "collected" =>
          /\ ReturnedPages(result.returned.individual_results)
                \cup ReturnedPages(result.returned.relay_results) = SucceededLinks
          /\ Len(result.returned.individual_results) + Len(result.returned.relay_results)
                = Cardinality(SucceededLinks)
    /\ pc = "returned Ok" => result.i = Len(result.order)
    /\ pc = "returned Err" => result.i + 1 = Len(result.order)

====
